---------------------------- MODULE SharingProofs ---------------------------
(***************************************************************************)
(* Proofs about Sharing, for any number of grants, recipients and topics:  *)
(* a denial holds, of every approval at most one topic is made, and the    *)
(* policy keeps what ShareAccess promises.                                 *)
(*                                                                         *)
(* The invariant has four parts beside the types.  What a start will load  *)
(* is never newer than the memory, and a denial that it keeps is a denial  *)
(* there too (DenialOK).  An intent is in memory and on disk while a topic *)
(* may be made, and no topic has been made for a grant that has none       *)
(* (TopicOK); for that the retention must not settle an intent of a grant  *)
(* the bridge works for.  What a guest was admitted for is what the grant  *)
(* still is, unless a failed save closed it (WorkOK).                      *)
(***************************************************************************)
EXTENDS Sharing, TLAPS

Policy == [Grants -> Grant \cup {None}]
BridgeAt == {"prepare", "create", "creating", "failed", "activate", "card", "carding",
             "edit", "editing", "mark", "marking", "missing", "delete", "deleting", "forget"}
BridgeJob == [at: BridgeAt, grant: Grants, rev: Nat, topic: Mirror, key: Keys \cup {None}]
CheckJob == [at: {"check"}, grant: Grants, rev: Nat, topic: {None}, key: Keys]
SweepJob == [at: {"retired", "delete", "deleting", "forget"}, grant: Grants, rev: Nat,
             topic: Mirror, key: Keys \cup {None}]
Notice == [kind: {"here", "gone"}, key: Keys]
Followed == [kind: {"here", "gone"}, left: SUBSET Grants]
ShownGrant == [rev: Nat, key: Keys, mirror: Mirror]
Pass == [key: Keys, shown: [Grants -> ShownGrant \cup {None}], calls: Nat]

(* Every variable keeps its type.                                          *)
TypeOK ==
  /\ mem \in Policy /\ disk \in Policy
  /\ inflight \subseteq [grant: Grants, revision: Nat, by: {"bridge", "sweep", "guest"}]
  /\ bridge \in BridgeJob \cup CheckJob \cup {Idle} /\ sweep \in SweepJob \cup {Idle}
  /\ guest \in Request \cup {None}
  /\ agent \in Keys \cup {None} /\ events \in Seq(Notice)
  /\ pending \in [Keys -> Followed \cup {None}] /\ pass \in Pass \cup {None}
  /\ topics \subseteq [topic: Topics, grant: Grants]
  /\ made \in [Grants -> Nat] /\ denied \in [Grants -> Nat]
  /\ spent \in Nat

Denied(r) == r # None /\ r.state \in {"revoked", "suspended", "expired"} /\ r.reason = "owner"

DenialOK ==
  \A g \in Grants :
    /\ disk[g] # None => mem[g] # None /\ disk[g].rev <= mem[g].rev
    /\ denied[g] # 0 => Denied(mem[g])
    /\ denied[g] # 0 /\ disk[g] # None => disk[g].rev < denied[g] \/ Denied(disk[g])

NoMirror(r) == r = None \/ r.mirror = None
Intends(r) == r # None /\ r.mirror = "creating"
Making(g) == bridge.at \in {"create", "creating"} /\ bridge.grant = g

TopicsOf(g) ==
  /\ made[g] <= 1
  /\ NoMirror(mem[g]) \/ NoMirror(disk[g]) => made[g] = 0
  /\ Making(g) => /\ made[g] = 0 /\ Intends(mem[g]) /\ Intends(disk[g])
                  /\ sweep # Idle /\ sweep.grant = g => mem[g].state # "revoked"
TopicOK == \A g \in Grants : TopicsOf(g)

(* Whoever has a job has it for a grant, and a topic to activate; only what *)
(* the owner approves may be new.  A pass has an event, and shows grants.  *)
PassOK ==
  pass # None => /\ pending[pass.key] \in Followed
                 /\ \A g \in Grants : pass.shown[g] # None => mem[g] # None
JobOK ==
  /\ PassOK
  /\ bridge.at = "activate" => bridge.topic \in Topics
  /\ bridge # Idle /\ bridge.at # "check" => mem[bridge.grant] # None
  /\ sweep # Idle => mem[sweep.grant] # None

WorkOK ==
  \A w \in inflight : w.by = "guest" =>
    /\ mem[w.grant] # None /\ mem[w.grant].rev = w.revision
    /\ mem[w.grant].state \in {"active", "suspended"}
    /\ guest # None /\ guest.at = "running" /\ guest.grant = w.grant /\ guest.rev = w.revision

IInv == TypeOK /\ JobOK /\ DenialOK /\ TopicOK /\ WorkOK

---------------------------------------------------------------------------
(* Records and policies.                                                   *)

LEMMA GrantParts ==
  ASSUME NEW r \in Grant
  PROVE  /\ r # None
         /\ r.key \in Keys /\ r.rev \in Nat /\ r.state \in States /\ r.reason \in Reasons
         /\ r.own \in BOOLEAN /\ r.due \in {"never", "later", "past"} /\ r.mirror \in Mirror
         /\ r.exited \in {"no", "recent", "old"} /\ r.who \in Recipients
<1>1. r # None
  BY SharingAssumption DEF SharingAssumption
<1>2. QED BY <1>1 DEF Grant

LEMMA BumpedGrant ==
  ASSUME NEW r \in Grant
  PROVE  /\ Bumped(r) \in Grant /\ Bumped(r).rev = r.rev + 1
         /\ Bumped(r).state = r.state /\ Bumped(r).reason = r.reason /\ Bumped(r).mirror = r.mirror
BY DEF Grant, Bumped

LEMMA MovedGrant ==
  ASSUME NEW r \in Grant, NEW state \in States, NEW reason \in Reasons
  PROVE  /\ To(r, state, reason) \in Grant /\ To(r, state, reason).rev = r.rev + 1
         /\ To(r, state, reason).state = state /\ To(r, state, reason).reason = reason
         /\ To(r, state, reason).mirror = r.mirror
<1> DEFINE b == Bumped(r)
<1>1. To(r, state, reason) = [b EXCEPT !.state = state, !.reason = reason]
  BY DEF To
<1>2. b \in Grant /\ b.rev = r.rev + 1 /\ b.mirror = r.mirror
  BY BumpedGrant
<1> HIDE DEF b
<1>3. QED BY <1>1, <1>2 DEF Grant

LEMMA PutGrant ==
  ASSUME NEW r \in Grant, NEW state \in States, NEW m \in Mirror
  PROVE  /\ Put(r, state, m) \in Grant /\ Put(r, state, m).rev = r.rev + 1
         /\ Put(r, state, m).state = state /\ Put(r, state, m).reason = r.reason
         /\ Put(r, state, m).mirror = m
<1> DEFINE b == Bumped(r)
<1>1. Put(r, state, m) = [b EXCEPT !.state = state, !.mirror = m]
  BY DEF Put
<1>2. b \in Grant /\ b.rev = r.rev + 1 /\ b.reason = r.reason
  BY BumpedGrant
<1> HIDE DEF b
<1>3. QED BY <1>1, <1>2 DEF Grant

LEMMA RenewedGrant ==
  ASSUME NEW r \in Grant, NEW due \in {"never", "later"}
  PROVE  /\ Renewed(r, due) \in Grant /\ Renewed(r, due).rev = r.rev + 1
         /\ Renewed(r, due).state = (IF r.state = "active" THEN "active" ELSE "pending")
         /\ Renewed(r, due).reason = r.reason /\ Renewed(r, due).mirror = r.mirror
<1> DEFINE b == Bumped(r)
<1>1. Renewed(r, due) = [b EXCEPT !.own = TRUE, !.due = due, !.state = IF @ = "active" THEN @ ELSE "pending"]
  BY DEF Renewed
<1>2. b \in Grant /\ b.rev = r.rev + 1 /\ b.state = r.state /\ b.reason = r.reason /\ b.mirror = r.mirror
  BY BumpedGrant
<1> HIDE DEF b
<1>3. QED BY <1>1, <1>2 DEF Grant, States

LEMMA NewGrantTypes ==
  ASSUME NEW r \in Recipients, NEW k \in Keys
  PROVE  /\ NewGrant(r, k) \in Grant /\ NewGrant(r, k).rev = 0 /\ NewGrant(r, k).mirror = None
         /\ NewGrant(r, k).state = "pending"
BY DEF NewGrant, Grant, States, Mirror, Reasons

(* What the other changes of a record leave alone.                         *)
LEMMA EditedGrant ==
  ASSUME NEW r \in Grant
  PROVE  /\ \A m \in Mirror :
              /\ Mirrored(r, m) \in Grant /\ Mirrored(r, m).mirror = m
              /\ Mirrored(r, m).rev = r.rev /\ Mirrored(r, m).state = r.state /\ Mirrored(r, m).reason = r.reason
         /\ Fallback(r) \in Grant /\ Fallback(r).rev = r.rev /\ Fallback(r).state = "suspended"
         /\ Fallback(r).reason = r.reason /\ Fallback(r).mirror = r.mirror
         /\ RolledBack(r) \in Grant /\ RolledBack(r).rev = r.rev /\ RolledBack(r).state = "suspended"
         /\ RolledBack(r).reason = "persistence" /\ RolledBack(r).mirror = r.mirror
<1>1. ASSUME NEW m \in Mirror
      PROVE  /\ Mirrored(r, m) \in Grant /\ Mirrored(r, m).mirror = m
             /\ Mirrored(r, m).rev = r.rev /\ Mirrored(r, m).state = r.state /\ Mirrored(r, m).reason = r.reason
  BY DEF Grant, Mirrored
<1>2. /\ Fallback(r) \in Grant /\ Fallback(r).rev = r.rev /\ Fallback(r).state = "suspended"
      /\ Fallback(r).reason = r.reason /\ Fallback(r).mirror = r.mirror
  BY DEF Grant, Fallback, States
<1>3. /\ RolledBack(r) \in Grant /\ RolledBack(r).rev = r.rev /\ RolledBack(r).state = "suspended"
      /\ RolledBack(r).reason = "persistence" /\ RolledBack(r).mirror = r.mirror
  BY DEF Grant, RolledBack, States, Reasons
<1>4. QED BY <1>1, <1>2, <1>3

LEMMA AgingGrant ==
  ASSUME NEW r \in Grant, NEW s \in {Due(r), Aged(r), Foreign(r)}
  PROVE  s \in Grant /\ s.rev = r.rev /\ s.state = r.state /\ s.reason = r.reason /\ s.mirror = r.mirror
<1>1. CASE s = Due(r)
  BY <1>1 DEF Grant, Due
<1>2. CASE s = Aged(r)
  BY <1>2 DEF Grant, Aged
<1>3. CASE s = Foreign(r)
  <2>1. s = [r EXCEPT !.own = FALSE]
    BY <1>3, GrantParts DEF Foreign
  <2>2. QED BY <2>1 DEF Grant
<1>4. QED BY <1>1, <1>2, <1>3

LEMMA RetainedGrant ==
  ASSUME NEW r \in Grant
  PROVE  /\ Retained(r) \in Grant /\ Retained(r).mirror = r.mirror
         /\ Retained(r).state = "revoked" /\ Retained(r).reason = "retention"
         /\ Retained(r).rev = IF r.state = "revoked" THEN r.rev ELSE r.rev + 1
<1>1. CASE r.state = "revoked"
  <2>1. Retained(r) = [r EXCEPT !.reason = "retention"]
    BY <1>1 DEF Retained
  <2>2. QED BY <1>1, <2>1 DEF Grant, Reasons
<1>2. CASE r.state # "revoked"
  <2>1. Retained(r) = To(r, "revoked", "retention")
    BY <1>2 DEF Retained
  <2>2. "revoked" \in States /\ "retention" \in Reasons
    BY DEF States, Reasons
  <2>3. QED BY <1>2, <2>1, <2>2, MovedGrant
<1>3. QED BY <1>1, <1>2

(* A grant after an event is what it was, or has a new revision and is     *)
(* active or suspended.                                                    *)
LEMMA AfterGrant ==
  ASSUME NEW r \in Grant, NEW kind \in {"here", "gone"}, NEW k \in Keys
  PROVE  /\ After(r, kind, k) \in Grant /\ After(r, kind, k).mirror = r.mirror
         /\ \/ After(r, kind, k) = r
            \/ /\ After(r, kind, k).rev = r.rev + 1
               /\ After(r, kind, k).state \in {"active", "suspended"}
<1>1. ASSUME NEW state \in {"active", "suspended"}, NEW reason \in Reasons, NEW exited \in {"no", "recent"}
      PROVE  /\ [To(r, state, reason) EXCEPT !.exited = exited] \in Grant
             /\ [To(r, state, reason) EXCEPT !.exited = exited].mirror = r.mirror
             /\ [To(r, state, reason) EXCEPT !.exited = exited].rev = r.rev + 1
             /\ [To(r, state, reason) EXCEPT !.exited = exited].state = state
  <2> DEFINE t == To(r, state, reason)
  <2>0. state \in States
    BY DEF States
  <2>1. t \in Grant /\ t.rev = r.rev + 1 /\ t.state = state /\ t.mirror = r.mirror
    BY <2>0, MovedGrant
  <2> HIDE DEF t
  <2>2. [t EXCEPT !.exited = exited] \in Grant
        /\ [t EXCEPT !.exited = exited].mirror = r.mirror
        /\ [t EXCEPT !.exited = exited].rev = r.rev + 1
        /\ [t EXCEPT !.exited = exited].state = state
    BY <2>1 DEF Grant
  <2>3. QED BY <2>2 DEF t
<1>2. /\ Revived(r, k) \in Grant /\ Revived(r, k).mirror = r.mirror
      /\ Revived(r, k).rev = r.rev + 1 /\ Revived(r, k).state = "active"
  <2> DEFINE t == To(r, "active", "none")
  <2>0. "active" \in States /\ "none" \in Reasons
    BY DEF States, Reasons
  <2>1. t \in Grant /\ t.rev = r.rev + 1 /\ t.state = "active" /\ t.mirror = r.mirror
    BY <2>0, MovedGrant
  <2>2. Revived(r, k) = [t EXCEPT !.key = k, !.exited = "no"]
    BY DEF Revived
  <2> HIDE DEF t
  <2>3. QED BY <2>1, <2>2 DEF Grant
<1>3. /\ To(r, "suspended", "identity") \in Grant /\ To(r, "suspended", "identity").mirror = r.mirror
      /\ To(r, "suspended", "identity").rev = r.rev + 1 /\ To(r, "suspended", "identity").state = "suspended"
  <2>1. "suspended" \in States /\ "identity" \in Reasons
    BY DEF States, Reasons
  <2>2. QED BY <2>1, MovedGrant
<1>4. CASE kind = "gone"
  <2>1. After(r, kind, k) = [To(r, "suspended", "exited") EXCEPT !.exited = "recent"]
    BY <1>4 DEF After
  <2>2. "exited" \in Reasons
    BY DEF Reasons
  <2>3. QED BY <1>1, <2>1, <2>2, ZenonT(60)
<1>5. CASE kind = "here"
  <2>1. After(r, kind, k) \in {Revived(r, k), To(r, "suspended", "identity"), r}
    BY <1>5, GrantParts DEF After
  <2>2. QED BY <1>2, <1>3, <2>1
<1>6. QED BY <1>4, <1>5

LEMMA GrantOf ==
  ASSUME TypeOK, NEW g \in Grants
  PROVE  /\ mem[g] = None \/ mem[g] \in Grant
         /\ disk[g] = None \/ disk[g] \in Grant
BY DEF TypeOK, Policy

LEMMA WithTypes ==
  ASSUME TypeOK, NEW g \in Grants, NEW r \in Grant
  PROVE  /\ With(g, r) \in Policy
         /\ With(g, r)[g] = r
         /\ \A h \in Grants : h # g => With(g, r)[h] = mem[h]
BY DEF TypeOK, Policy, With

(* A save changes the file as a whole, or not at all.                      *)
LEMMA SavedOrNot ==
  ASSUME TypeOK, NEW next \in Policy, NEW fallback \in Policy,
         Saved(next) \/ Unsaved(next, fallback)
  PROVE  /\ mem' \in Policy /\ disk' \in Policy
         /\ spent' \in Nat
         /\ (mem' = next /\ disk' = next) \/ (mem' = fallback /\ disk' = disk)
<1>1. CASE Saved(next)
  BY <1>1 DEF Saved, TypeOK
<1>2. CASE Unsaved(next, fallback)
  <2>1. spent' \in Nat
    <3>0. spent \in Nat
      BY DEF TypeOK
    <3>1. CASE Spend
      BY <3>0, <3>1 DEF Spend
    <3>2. CASE UNCHANGED spent
      BY <3>2 DEF TypeOK
    <3>3. QED BY <1>2, <3>1, <3>2 DEF Unsaved
  <2>2. QED BY <1>2, <2>1 DEF Unsaved, TypeOK
<1>3. QED BY <1>1, <1>2

LEMMA SaveTypes ==
  ASSUME TypeOK, NEW next \in Policy, Save(next)
  PROVE  /\ mem' = next /\ disk' \in {disk, next}
         /\ mem' \in Policy /\ disk' \in Policy
         /\ spent' \in Nat
BY SavedOrNot DEF Save

(* Whoever has a job has it for a grant.                                   *)
LEMMA JobTypes ==
  ASSUME TypeOK
  PROVE  /\ bridge.at = "check" => bridge \in CheckJob
         /\ (bridge # Idle /\ bridge.at # "check") \/ bridge.at \notin {"idle", "check"} =>
              /\ bridge \in BridgeJob /\ bridge.at \in BridgeAt
              /\ bridge.grant \in Grants /\ bridge.rev \in Nat
              /\ bridge.topic \in Mirror /\ bridge.key \in Keys \cup {None}
         /\ sweep # Idle \/ sweep.at # "idle" =>
              /\ sweep \in SweepJob
              /\ sweep.grant \in Grants /\ sweep.rev \in Nat
              /\ sweep.topic \in Mirror /\ sweep.key \in Keys \cup {None}
BY DEF TypeOK, Idle, BridgeJob, BridgeAt, CheckJob, SweepJob

LEMMA MovedJob ==
  ASSUME NEW b \in BridgeJob, NEW at \in BridgeAt
  PROVE  /\ Moved(b, at) \in BridgeJob /\ Moved(b, at).at = at /\ Moved(b, at).grant = b.grant
         /\ Moved(b, at).topic = b.topic
BY DEF Moved, BridgeJob

LEMMA MovedSweep ==
  ASSUME NEW s \in SweepJob, NEW at \in {"delete", "deleting", "forget"}
  PROVE  Moved(s, at) \in SweepJob /\ Moved(s, at).grant = s.grant
BY DEF Moved, SweepJob

LEMMA ActivatingJob ==
  ASSUME NEW t \in Topics, bridge \in BridgeJob
  PROVE  /\ Activating(t) \in BridgeJob /\ Activating(t).at = "activate"
         /\ Activating(t).grant = bridge.grant /\ Activating(t).topic = t
BY DEF Activating, BridgeJob, BridgeAt, Mirror

LEMMA NewJob ==
  ASSUME NEW g \in Grants, mem'[g] \in Grant, NEW topic \in Mirror, NEW key \in Keys \cup {None}
  PROVE  /\ \A at \in BridgeAt : Job(at, g, topic, key) \in BridgeJob
         /\ Job("retired", g, topic, key) \in SweepJob
         /\ \A at : Job(at, g, topic, key).at = at /\ Job(at, g, topic, key).grant = g
<1>1. mem'[g].rev \in Nat
  BY GrantParts
<1>2. QED BY <1>1 DEF Job, BridgeJob, SweepJob

---------------------------------------------------------------------------
(* What the steps have in common.                                          *)

LEMMA InitTypes == ASSUME SharingAssumption, Init PROVE TypeOK
BY DEF Init, TypeOK, Policy, Idle, SharingAssumption

Spent == Nat
Rev0(r) == IF r = None THEN 0 ELSE r.rev
Busy(g) == \E w \in inflight : w.by = "guest" /\ w.grant = g

(* A step that gives one grant another record, saved or not.               *)
Writes(g, r) == mem' = With(g, r) /\ disk' \in {disk, mem'} /\ spent' \in Spent

(* A step that changes no other grant, nor takes this one back.            *)
Changes(g) ==
  /\ mem' \in Policy /\ disk' \in Policy /\ disk' \in {disk, mem'} /\ spent' \in Spent
  /\ \A h \in Grants : h # g => mem'[h] = mem[h]
  /\ mem[g] # None => mem'[g] # None /\ mem[g].rev <= mem'[g].rev

LEMMA WriteTypes ==
  ASSUME TypeOK, NEW g \in Grants, NEW r \in Grant, Writes(g, r),
         mem[g] # None => mem[g].rev <= r.rev
  PROVE  Changes(g) /\ mem'[g] = r /\ mem'[g] # None
<1>1. /\ mem' \in Policy /\ mem'[g] = r /\ r # None
      /\ \A h \in Grants : h # g => mem'[h] = mem[h]
  BY WithTypes, GrantParts DEF Writes
<1>2. disk \in Policy
  BY DEF TypeOK
<1>3. QED BY <1>1, <1>2 DEF Writes, Changes

LEMMA SameTypes ==
  ASSUME TypeOK, NEW g \in Grants, mem' = mem, disk' = disk, spent' \in Spent
  PROVE  Changes(g)
<1>1. mem[g] # None => mem[g].rev \in Nat
  BY GrantOf, GrantParts
<1>2. QED BY <1>1 DEF TypeOK, Changes

LEMMA SavedWrites ==
  ASSUME TypeOK, NEW g \in Grants, NEW r \in Grant, NEW f \in Grant,
         Saved(With(g, r)) \/ Unsaved(With(g, r), With(g, f))
  PROVE  (Writes(g, r) /\ disk' = mem') \/ (Writes(g, f) /\ disk' = disk)
<1>1. With(g, r) \in Policy /\ With(g, f) \in Policy
  BY WithTypes
<1>2. /\ spent' \in Spent
      /\ (mem' = With(g, r) /\ disk' = mem') \/ (mem' = With(g, f) /\ disk' = disk)
  BY <1>1, SavedOrNot DEF Spent
<1>3. QED BY <1>2 DEF Writes

(* A denial that was kept, or made under a new revision, holds after a     *)
(* step that takes no grant away and saves what is in memory, or nothing.  *)
LEMMA DenialKept ==
  ASSUME TypeOK, DenialOK, mem' \in Policy, disk' \in {disk, mem'}, denied' \in [Grants -> Nat],
         \A g \in Grants :
           /\ mem[g] # None => mem'[g] # None /\ mem[g].rev <= mem'[g].rev
           /\ denied'[g] # 0 =>
                /\ Denied(mem'[g])
                /\ denied'[g] = denied[g] \/ (mem[g] # None /\ mem[g].rev < denied'[g])
  PROVE  DenialOK'
<1>1. SUFFICES ASSUME NEW g \in Grants
               PROVE  /\ disk'[g] # None => mem'[g] # None /\ disk'[g].rev <= mem'[g].rev
                      /\ denied'[g] # 0 => Denied(mem'[g])
                      /\ denied'[g] # 0 /\ disk'[g] # None => disk'[g].rev < denied'[g] \/ Denied(disk'[g])
  BY DEF DenialOK, Denied
<1>2. /\ mem[g] # None => mem[g].rev \in Nat
      /\ disk[g] # None => disk[g].rev \in Nat
      /\ mem'[g] # None => mem'[g].rev \in Nat
  BY GrantOf, GrantParts DEF Policy
<1>3. denied[g] \in Nat /\ denied'[g] \in Nat
  BY DEF TypeOK
<1>4. QED BY <1>2, <1>3 DEF DenialOK

(* The topics of a grant whose mirror a step does not forget, and which no *)
(* step begins to make one for.                                            *)
LEMMA TopicKept ==
  ASSUME NEW g \in Grants, TopicsOf(g), made'[g] = made[g],
         NoMirror(mem'[g]) \/ NoMirror(disk'[g]) => NoMirror(mem[g]) \/ NoMirror(disk[g]),
         Making(g)' => /\ Making(g)
                       /\ Intends(mem[g]) => Intends(mem'[g])
                       /\ disk'[g] \in {disk[g], mem'[g]}
                       /\ sweep' # Idle /\ sweep'.grant = g =>
                            /\ sweep # Idle /\ sweep.grant = g
                            /\ mem[g].state # "revoked" => mem'[g].state # "revoked"
  PROVE  TopicsOf(g)'
BY DEF TopicsOf, NoMirror, Intends, Making

(* What is left of the admitted work, when its grants are what they were   *)
(* or were closed without a new revision.                                  *)
LEMMA WorkKept ==
  ASSUME WorkOK, guest' = guest,
         \A w \in inflight' : w.by = "guest" =>
            /\ w \in inflight
            /\ mem'[w.grant] # None /\ mem'[w.grant].rev = mem[w.grant].rev
            /\ mem'[w.grant].state \in {mem[w.grant].state, "suspended"}
  PROVE  WorkOK'
BY DEF WorkOK

(* Work is only admitted under a grant that is, or was, active.            *)
LEMMA NotBusy ==
  ASSUME IInv, NEW g \in Grants, Busy(g)
  PROVE  mem[g] # None /\ mem[g].state \in {"active", "suspended"}
BY DEF IInv, WorkOK, Busy

(* The revision of a grant, and whether it is open, for ShareAccess.       *)
LEMMA AccessStutters ==
  ASSUME \A h \in Grants : Rev0(mem'[h]) = Rev0(mem[h]), Open' = Open, Admitted' = Admitted
  PROVE  [Access!Next]_(Access!vars)
BY DEF Access!vars, Rev0

LEMMA AccessChanges ==
  ASSUME NEW C \in SUBSET Grants, NEW D \in SUBSET Grants, C # {}, D \subseteq Grants \ C,
         \A h \in C : Rev0(mem[h]) < Rev0(mem'[h]),
         \A h \in Grants \ C : Rev0(mem'[h]) = Rev0(mem[h]),
         \A h \in Grants \ C : h \in Open' <=> h \in Open /\ h \notin D,
         Admitted' = {w \in Admitted : w.grant \notin C}
  PROVE  Access!Next
<1> DEFINE R == [g \in Grants |-> IF mem[g] = None THEN 0 ELSE mem[g].rev]
<1>1. \A h \in C : R[h] < R'[h]
  BY DEF Rev0
<1>2. \A h \in Grants \ C : R'[h] = R[h]
  BY DEF Rev0
<1>3. Open' \ C = Open \ (C \cup D)
  BY DEF Open
<1>4. Admitted' = Admitted \ {w \in Admitted : w.grant \in C}
  OBVIOUS
<1>5. Access!Change(C, D)
  BY <1>1, <1>2, <1>3, <1>4 DEF Access!Change
<1>6. QED BY <1>5 DEF Access!Next

(* A step of one grant.  Either it has a new revision, and no work of it   *)
(* is left, or its revision and its state are what they were.              *)
GrantStep(g) ==
  /\ Changes(g) /\ guest' = guest /\ inflight' \in {inflight, Cancelled(g)}
  /\ denied' \in [Grants -> Nat] /\ \A h \in Grants : h # g => denied'[h] = denied[h]
  /\ denied'[g] # 0 =>
       /\ Denied(mem'[g])
       /\ denied'[g] = denied[g] \/ (mem[g] # None /\ mem[g].rev < denied'[g])
  /\ \/ Rev0(mem[g]) < Rev0(mem'[g]) /\ ~Busy(g)'
     \/ /\ Rev0(mem'[g]) = Rev0(mem[g]) /\ (mem[g] = None <=> mem'[g] = None)
        /\ mem[g] # None => mem'[g].state = mem[g].state
        /\ Busy(g) => inflight' = inflight

LEMMA GrantStepKeeps ==
  ASSUME IInv, NEW g \in Grants, GrantStep(g)
  PROVE  /\ DenialOK' /\ WorkOK' /\ [Access!Next]_(Access!vars)
         /\ \A h \in Grants : mem[h] # None => mem'[h] # None
<1>1. /\ Changes(g) /\ guest' = guest /\ inflight' \subseteq inflight
      /\ \A w \in inflight : w.grant # g => w \in inflight'
  BY DEF GrantStep, Cancelled
<1>2. \A h \in Grants : h # g => mem'[h] = mem[h]
  BY <1>1 DEF Changes
<1>3. \A h \in Grants : mem[h] # None => mem[h].rev \in Nat
  BY GrantOf, GrantParts DEF IInv
<1>4. \A h \in Grants : mem[h] # None => mem'[h] # None /\ mem[h].rev <= mem'[h].rev
  BY <1>1, <1>2, <1>3 DEF Changes
<1>5. DenialOK'
  <2>1. \A h \in Grants : denied[h] # 0 => Denied(mem[h])
    BY DEF IInv, DenialOK
  <2>2. \A h \in Grants :
          denied'[h] # 0 =>
            /\ Denied(mem'[h])
            /\ denied'[h] = denied[h] \/ (mem[h] # None /\ mem[h].rev < denied'[h])
    BY <1>2, <2>1 DEF GrantStep
  <2>3. mem' \in Policy /\ disk' \in {disk, mem'} /\ denied' \in [Grants -> Nat]
    BY <1>1 DEF GrantStep, Changes
  <2>4. QED BY <1>4, <2>2, <2>3, DenialKept DEF IInv
<1>6. WorkOK'
  <2>1. ASSUME NEW w \in inflight', w.by = "guest"
        PROVE  /\ w \in inflight
               /\ mem'[w.grant] # None /\ mem'[w.grant].rev = mem[w.grant].rev
               /\ mem'[w.grant].state = mem[w.grant].state
    <3>1. w \in inflight /\ w.grant \in Grants /\ mem[w.grant] # None
      BY <1>1, <2>1 DEF IInv, TypeOK, WorkOK
    <3>2. CASE w.grant = g
      <4>1. Busy(g)'
        BY <2>1, <3>2 DEF Busy
      <4>2. /\ Rev0(mem'[g]) = Rev0(mem[g]) /\ mem'[g] # None
            /\ mem'[g].state = mem[g].state
        BY <3>1, <3>2, <4>1 DEF GrantStep
      <4>3. QED BY <3>1, <3>2, <4>2 DEF Rev0
    <3>3. CASE w.grant # g
      BY <1>2, <3>1, <3>3
    <3>4. QED BY <3>2, <3>3
  <2>2. QED BY <1>1, <2>1, WorkKept DEF IInv
<1>7. [Access!Next]_(Access!vars)
  <2>1. \A h \in Grants : h # g => Rev0(mem'[h]) = Rev0(mem[h]) /\ (h \in Open' <=> h \in Open)
    BY <1>2 DEF Rev0, Open
  <2>2. CASE Rev0(mem[g]) < Rev0(mem'[g]) /\ ~Busy(g)'
    <3>1. Admitted' = {w \in Admitted : w.grant \notin {g}}
      <4>1. \A w \in inflight' : w.by = "guest" => w.grant # g
        BY <2>2 DEF Busy
      <4>2. \A a : a \in Admitted' => a \in Admitted /\ a.grant # g
        BY <1>1, <4>1 DEF Admitted
      <4>3. \A a : a \in Admitted /\ a.grant # g => a \in Admitted'
        BY <1>1 DEF Admitted
      <4>4. QED BY <4>2, <4>3
    <3>2. \A h \in Grants \ {g} : h \in Open' <=> h \in Open /\ h \notin {}
      BY <2>1
    <3>3. {} \in SUBSET Grants /\ {g} \in SUBSET Grants /\ {g} # {} /\ {} \subseteq Grants \ {g}
      OBVIOUS
    <3>4. /\ \A h \in {g} : Rev0(mem[h]) < Rev0(mem'[h])
          /\ \A h \in Grants \ {g} : Rev0(mem'[h]) = Rev0(mem[h])
      BY <2>1, <2>2
    <3>5. QED BY <3>1, <3>2, <3>3, <3>4, AccessChanges
  <2>3. CASE /\ Rev0(mem'[g]) = Rev0(mem[g]) /\ (mem[g] = None <=> mem'[g] = None)
             /\ mem[g] # None => mem'[g].state = mem[g].state
             /\ Busy(g) => inflight' = inflight
    <3>1. \A h \in Grants : Rev0(mem'[h]) = Rev0(mem[h])
      BY <2>1, <2>3
    <3>2. Open' = Open
      <4>1. g \in Open' <=> g \in Open
        BY <2>3 DEF Open
      <4>2. Open \subseteq Grants /\ Open' \subseteq Grants
        BY DEF Open
      <4>3. QED BY <2>1, <4>1, <4>2
    <3>3. Admitted' = Admitted
      <4>1. \A w \in inflight : w.by = "guest" => w \in inflight'
        BY <1>1, <2>3 DEF Busy
      <4>2. \A a : a \in Admitted' => a \in Admitted
        BY <1>1 DEF Admitted
      <4>3. \A a : a \in Admitted => a \in Admitted'
        BY <4>1 DEF Admitted
      <4>4. QED BY <4>2, <4>3
    <3>4. QED BY <3>1, <3>2, <3>3, AccessStutters
  <2>4. QED BY <2>2, <2>3 DEF GrantStep
<1>8. QED BY <1>4, <1>5, <1>6, <1>7

LEMMA SettledTopics ==
  ASSUME IInv, NEW g \in Grants, Changes(g), made'[g] = made[g], ~Making(g)',
         NoMirror(mem'[g]) => NoMirror(mem[g])
  PROVE  TopicsOf(g)'
<1>1. TopicsOf(g)
  BY DEF IInv, TopicOK
<1>2. disk'[g] \in {disk[g], mem'[g]}
  BY DEF Changes
<1>3. QED BY <1>1, <1>2, TopicKept

(* A grant has a new revision, and the work of the old one is cancelled,   *)
(* or there is none.                                                       *)
LEMMA NewRevision ==
  ASSUME IInv, NEW g \in Grants, mem[g] \in Grant, NEW r \in Grant, r.rev = mem[g].rev + 1,
         Writes(g, r), guest' = guest,
         inflight' = Cancelled(g) \/ (inflight' = inflight /\ mem[g].state \notin {"active", "suspended"}),
         denied' \in [Grants -> Nat], \A h \in Grants : h # g => denied'[h] = denied[h],
         denied'[g] # 0 => Denied(r) /\ (denied'[g] = denied[g] \/ denied'[g] = mem[g].rev + 1)
  PROVE  GrantStep(g) /\ Changes(g) /\ mem'[g] = r /\ mem'[g] # None
<1>1. mem[g] # None /\ mem[g].rev \in Nat
  BY GrantParts
<1>2. Changes(g) /\ mem'[g] = r /\ mem'[g] # None
  BY <1>1, WriteTypes DEF IInv
<1>3. ~Busy(g)'
  <2>1. CASE inflight' = Cancelled(g)
    BY <2>1 DEF Busy, Cancelled
  <2>2. CASE inflight' = inflight /\ mem[g].state \notin {"active", "suspended"}
    BY <2>2, NotBusy DEF Busy
  <2>3. QED BY <2>1, <2>2
<1>4. denied'[g] # 0 => Denied(mem'[g]) /\ (denied'[g] = denied[g] \/ (mem[g] # None /\ mem[g].rev < denied'[g]))
  BY <1>1, <1>2
<1>5. Rev0(mem[g]) < Rev0(mem'[g])
  BY <1>1, <1>2 DEF Rev0
<1>6. QED BY <1>2, <1>3, <1>4, <1>5 DEF GrantStep

LEMMA NoRevision ==
  ASSUME IInv, NEW g \in Grants, UNCHANGED <<policy, inflight, guest, denied>>
  PROVE  GrantStep(g) /\ Changes(g) /\ mem'[g] = mem[g]
<1>1. Changes(g)
  BY SameTypes DEF policy, IInv, TypeOK, Spent
<1>2. denied[g] # 0 => Denied(mem[g])
  BY DEF IInv, DenialOK
<1>3. QED BY <1>1, <1>2 DEF GrantStep, policy, IInv, TypeOK

(* What such a step does for the topics of the others.                     *)
LEMMA OtherTopics ==
  ASSUME IInv, NEW g \in Grants, Changes(g),
         \A h \in Grants : h # g =>
           /\ made'[h] = made[h]
           /\ Making(h)' => Making(h)
           /\ sweep' # Idle /\ sweep'.grant = h => sweep # Idle /\ sweep.grant = h,
         TopicsOf(g)'
  PROVE  TopicOK'
<1>1. SUFFICES ASSUME NEW h \in Grants, h # g PROVE TopicsOf(h)'
  BY DEF TopicOK
<1>2. mem'[h] = mem[h] /\ disk'[h] \in {disk[h], mem'[h]}
  BY <1>1 DEF Changes
<1>3. TopicsOf(h)
  BY DEF IInv, TopicOK
<1>4. QED BY <1>1, <1>2, <1>3, TopicKept

(* The jobs and the topics after a step that keeps every grant.            *)
LEMMA JobKept ==
  ASSUME IInv, \A h \in Grants : mem[h] # None => mem'[h] # None,
         pass' = None \/ (pass' = pass /\ pending' = pending) \/ PassOK',
         bridge' # Idle => \/ bridge' = bridge \/ bridge'.at = "check"
                           \/ bridge # Idle /\ bridge.at # "check" /\ bridge'.grant = bridge.grant
                           \/ bridge'.grant \in Grants /\ mem'[bridge'.grant] # None,
         sweep' # Idle => \/ sweep # Idle /\ sweep'.grant = sweep.grant
                          \/ sweep'.grant \in Grants /\ mem'[sweep'.grant] # None,
         bridge'.at = "activate" => bridge'.topic \in Topics
  PROVE  JobOK'
<1>1. PassOK'
  <2>1. CASE pass' = pass /\ pending' = pending
    BY <2>1 DEF IInv, JobOK, PassOK
  <2>2. QED BY <2>1 DEF PassOK
<1>2. QED BY <1>1, JobTypes DEF IInv, JobOK

---------------------------------------------------------------------------
(* The bridge makes a topic.                                               *)

(* A step keeps the invariant, and is one that ShareAccess allows.         *)
Good == IInv' /\ [Access!Next]_(Access!vars)

LEMMA PrepareStep == ASSUME SharingAssumption, IInv, Prepare PROVE Good
<1>0. PICK g \in Grants : g = bridge.grant
  BY JobTypes DEF Prepare, IInv
<1> DEFINE r == Mirrored(mem[g], "creating")
<1>1. bridge \in BridgeJob /\ mem[g] \in Grant /\ bridge.at = "prepare"
  BY <1>0, JobTypes, GrantOf DEF Prepare, IInv, JobOK, Idle
<1>2. /\ r \in Grant /\ r.rev = mem[g].rev /\ r.state = mem[g].state /\ r.reason = mem[g].reason
      /\ r.mirror = "creating"
  BY <1>1, EditedGrant DEF Mirror
<1> HIDE DEF r
<1>3. \/ UNCHANGED policy /\ bridge' = Idle
      \/ UNCHANGED policy /\ mem[g].mirror \in Topics /\ bridge' = Activating(mem[g].mirror)
      \/ /\ mem[g].state = "pending" /\ mem[g].mirror = None /\ Writes(g, r)
         /\ bridge' = Idle \/ (bridge' = Step("create") /\ disk' = mem')
  <2>1. mem[g].mirror \in Topics \cup {None, "creating"}
    BY <1>1, GrantParts DEF Mirror
  <2>2. ASSUME Saved(With(g, r)) \/ Unsaved(With(g, r), With(g, r))
        PROVE  Writes(g, r) /\ (Saved(With(g, r)) => disk' = mem')
    BY <1>1, <1>2, <2>2, SavedWrites DEF IInv, Saved
  <2>3. QED BY <1>0, <2>1, <2>2 DEF Prepare, r, Unsettled
<1>4. /\ inflight' = inflight /\ sweep' = sweep /\ guest' = guest /\ made' = made /\ denied' = denied
      /\ pass' = pass /\ pending' = pending /\ agent' = agent /\ events' = events /\ topics' = topics
  BY DEF Prepare, world
<1>5. /\ Changes(g) /\ mem'[g] # None
      /\ mem'[g].rev = mem[g].rev /\ mem'[g].state = mem[g].state /\ mem'[g].reason = mem[g].reason
  <2>1. mem[g].rev \in Nat /\ mem[g] # None
    BY <1>1, GrantParts
  <2>2. CASE UNCHANGED policy
    BY <1>1, <2>1, <2>2, SameTypes DEF policy, IInv, TypeOK, Spent
  <2>3. CASE Writes(g, r)
    BY <1>1, <1>2, <2>1, <2>3, WriteTypes DEF IInv
  <2>4. QED BY <1>3, <2>2, <2>3
<1>6. GrantStep(g)
  <2>1. denied[g] # 0 => Denied(mem[g])
    BY <1>1 DEF IInv, DenialOK
  <2>2. QED BY <1>1, <1>4, <1>5, <2>1, GrantParts DEF GrantStep, Denied, IInv, TypeOK, Rev0
<1>7. /\ bridge' \in BridgeJob \cup {Idle} /\ (bridge' # Idle => bridge'.grant = g)
      /\ bridge'.at = "activate" => bridge'.topic \in Topics
      /\ bridge'.at \in {"create", "creating"} =>
           mem[g].state = "pending" /\ mem[g].mirror = None /\ Writes(g, r) /\ disk' = mem'
  <2>1. Step("create") \in BridgeJob /\ Step("create").at = "create" /\ Step("create").grant = g
    BY <1>0, <1>1, MovedJob DEF Step, BridgeAt
  <2>2. mem[g].mirror \in Topics => LET b == Activating(mem[g].mirror)
                                     IN b \in BridgeJob /\ b.at = "activate" /\ b.grant = g /\ b.topic \in Topics
    BY <1>0, <1>1, ActivatingJob
  <2>3. QED BY <1>3, <2>1, <2>2 DEF Idle
<1>8. TypeOK'
  BY <1>4, <1>5, <1>7 DEF IInv, TypeOK, Spent, Changes
<1>9. JobOK'
  BY <1>1, <1>4, <1>5, <1>6, <1>7, JobKept, GrantStepKeeps
<1>10. TopicOK'
  <2>1. TopicsOf(g)'
    <3>1. CASE UNCHANGED policy /\ ~Making(g)'
      BY <1>1, <1>4, <1>5, <3>1, SettledTopics DEF policy
    <3>2. CASE mem[g].state = "pending" /\ mem[g].mirror = None /\ Writes(g, r)
      <4>1. made[g] = 0
        BY <1>1, <3>2 DEF IInv, TopicOK, TopicsOf, NoMirror
      <4>2. mem'[g] = r
        BY <1>1, <1>2, <3>2, WriteTypes, GrantParts DEF IInv
      <4>3. Making(g)' => disk'[g] = r
        BY <1>7, <4>2 DEF Making
      <4>4. QED BY <1>2, <1>4, <3>2, <4>1, <4>2, <4>3 DEF TopicsOf, Intends
    <3>3. QED BY <1>3, <1>7, <3>1, <3>2 DEF Making
  <2>2. \A h \in Grants : h # g => ~Making(h)'
    BY <1>7 DEF Making, Idle
  <2>3. QED BY <1>1, <1>4, <1>5, <2>1, <2>2, OtherTopics
<1>11. QED BY <1>1, <1>6, <1>8, <1>9, <1>10, GrantStepKeeps DEF Good, IInv

LEMMA CreateFailedStep == ASSUME SharingAssumption, IInv, CreateFailed PROVE Good
<1>0. PICK g \in Grants : g = bridge.grant
  BY JobTypes DEF CreateFailed, IInv
<1> DEFINE r == To(mem[g], "needs-repair", "owner")
<1>1. mem[g] \in Grant
  BY <1>0, JobTypes, GrantOf DEF CreateFailed, IInv, JobOK, Idle
<1>2. r \in Grant /\ r.rev = mem[g].rev + 1 /\ r.mirror = mem[g].mirror
  <2>1. "needs-repair" \in States /\ "owner" \in Reasons
    BY DEF States, Reasons
  <2>2. QED BY <1>1, <2>1, MovedGrant
<1> HIDE DEF r
<1>3. \/ UNCHANGED <<policy, inflight>>
      \/ mem[g].state \in {"pending", "active"} /\ inflight' = Cancelled(g) /\ Writes(g, r)
  <2>1. Save(With(g, r)) => Writes(g, r)
    BY <1>1, <1>2, SavedWrites DEF IInv, Save
  <2>2. QED BY <1>0, <2>1 DEF CreateFailed, r, MayBecome, Cancel
<1>4. /\ bridge' = Idle /\ sweep' = sweep /\ guest' = guest /\ made' = made /\ denied' = denied
      /\ pass' = pass /\ pending' = pending /\ agent' = agent /\ events' = events /\ topics' = topics
  BY DEF CreateFailed, world
<1>5. GrantStep(g) /\ Changes(g) /\ (NoMirror(mem'[g]) => NoMirror(mem[g]))
  <2>1. CASE UNCHANGED <<policy, inflight>>
    BY <1>4, <2>1, NoRevision
  <2>2. CASE mem[g].state \in {"pending", "active"} /\ inflight' = Cancelled(g) /\ Writes(g, r)
    <3>1. denied[g] = 0
      BY <2>2 DEF IInv, DenialOK, Denied
    <3>2. GrantStep(g) /\ Changes(g) /\ mem'[g] = r /\ mem'[g] # None
      BY <1>1, <1>2, <1>4, <2>2, <3>1, NewRevision DEF IInv, TypeOK
    <3>3. QED BY <1>2, <3>2 DEF NoMirror
  <2>3. QED BY <1>3, <2>1, <2>2
<1>6. TypeOK'
  BY <1>3, <1>4, <1>5 DEF IInv, TypeOK, Spent, Changes, Cancelled
<1>7. JobOK'
  BY <1>4, <1>5, JobKept, GrantStepKeeps DEF Idle
<1>8. TopicOK'
  <2>1. \A h \in Grants : ~Making(h)'
    BY <1>4 DEF Making, Idle
  <2>2. TopicsOf(g)'
    BY <1>4, <1>5, <2>1, SettledTopics
  <2>3. QED BY <1>4, <1>5, <2>1, <2>2, OtherTopics
<1>9. QED BY <1>5, <1>6, <1>7, <1>8, GrantStepKeeps DEF Good, IInv

LEMMA ActivateStep == ASSUME SharingAssumption, IInv, ActivateMirror PROVE Good
<1>0. PICK g \in Grants : g = bridge.grant
  BY JobTypes DEF ActivateMirror, IInv
<1>1. mem[g] \in Grant /\ bridge.topic \in Topics
  BY <1>0, JobTypes, GrantOf DEF ActivateMirror, IInv, JobOK, Idle
<1>2. ASSUME NEW state \in {"active", "needs-repair"}
      PROVE  LET r == Put(mem[g], state, bridge.topic)
             IN r \in Grant /\ r.rev = mem[g].rev + 1 /\ r.mirror \in Topics
  <2>1. state \in States /\ bridge.topic \in Mirror
    BY <1>1 DEF States, Mirror
  <2>2. QED BY <1>1, <2>1, PutGrant
<1>3. \/ UNCHANGED policy /\ bridge' = Idle
      \/ /\ mem[g].state = "pending"
         /\ \E r \in Grant : /\ r.rev = mem[g].rev + 1 /\ r.mirror \in Topics /\ Writes(g, r)
                           /\ (bridge' = Idle \/ bridge' = Job("card", g, r.mirror, r.key))
  <2> DEFINE r == Put(mem[g], "active", bridge.topic)
             f == Put(mem[g], "needs-repair", bridge.topic)
  <2>1. /\ r \in Grant /\ r.rev = mem[g].rev + 1 /\ r.mirror \in Topics
        /\ f \in Grant /\ f.rev = mem[g].rev + 1 /\ f.mirror \in Topics
    BY <1>2
  <2>2. \/ UNCHANGED policy /\ bridge' = Idle
        \/ mem[g].state = "pending" /\ Saved(With(g, r)) /\ bridge' = Job("card", g, r.mirror, r.key)
        \/ mem[g].state = "pending" /\ Unsaved(With(g, r), With(g, f)) /\ bridge' = Idle
    BY <1>0 DEF ActivateMirror
  <2> HIDE DEF r, f
  <2>3. /\ Saved(With(g, r)) => Writes(g, r)
        /\ Unsaved(With(g, r), With(g, f)) => Writes(g, r) \/ Writes(g, f)
    <3>1. Saved(With(g, r)) => Saved(With(g, r)) \/ Unsaved(With(g, r), With(g, r))
      OBVIOUS
    <3>2. Saved(With(g, r)) => Writes(g, r)
      BY <2>1, <3>1, SavedWrites DEF IInv
    <3>3. Unsaved(With(g, r), With(g, f)) => Writes(g, r) \/ Writes(g, f)
      BY <2>1, SavedWrites DEF IInv
    <3>4. QED BY <3>2, <3>3
  <2>4. QED BY <2>1, <2>2, <2>3
<1>4. /\ sweep' = sweep /\ guest' = guest /\ made' = made /\ denied' = denied
      /\ pass' = pass /\ pending' = pending /\ agent' = agent /\ events' = events /\ topics' = topics /\ inflight' = inflight
  BY DEF ActivateMirror, world
<1>5. /\ GrantStep(g) /\ Changes(g) /\ (NoMirror(mem'[g]) => NoMirror(mem[g]))
      /\ bridge' = Idle \/ (bridge' \in BridgeJob /\ bridge'.at = "card" /\ bridge'.grant = g /\ mem'[g] # None)
  <2>1. CASE UNCHANGED policy /\ bridge' = Idle
    BY <1>4, <2>1, NoRevision
  <2>2. ASSUME mem[g].state = "pending",
               NEW r \in Grant, r.rev = mem[g].rev + 1, r.mirror \in Topics, Writes(g, r),
               bridge' = Idle \/ bridge' = Job("card", g, r.mirror, r.key)
        PROVE  /\ GrantStep(g) /\ Changes(g) /\ (NoMirror(mem'[g]) => NoMirror(mem[g]))
               /\ \/ bridge' = Idle
                  \/ bridge' \in BridgeJob /\ bridge'.at = "card" /\ bridge'.grant = g /\ mem'[g] # None
    <3>1. denied[g] = 0
      BY <2>2 DEF IInv, DenialOK, Denied
    <3>2. GrantStep(g) /\ Changes(g) /\ mem'[g] = r /\ mem'[g] # None
      BY <1>1, <1>4, <2>2, <3>1, NewRevision DEF IInv, TypeOK
    <3>3. r.mirror # None
      BY <2>2, SharingAssumption DEF SharingAssumption
    <3>4. r.key \in Keys \cup {None} /\ r.mirror \in Mirror /\ "card" \in BridgeAt
      BY GrantParts DEF BridgeAt
    <3>5. LET b == Job("card", g, r.mirror, r.key) IN b \in BridgeJob /\ b.at = "card" /\ b.grant = g
      BY <3>2, <3>4, NewJob
    <3>6. QED BY <2>2, <3>2, <3>3, <3>5 DEF NoMirror
  <2>3. QED BY <1>3, <2>1, <2>2
<1>6. TypeOK'
  BY <1>4, <1>5 DEF IInv, TypeOK, Spent, Changes
<1>7. JobOK'
  BY <1>4, <1>5, JobKept, GrantStepKeeps DEF Idle
<1>8. TopicOK'
  <2>1. \A h \in Grants : ~Making(h)'
    BY <1>5 DEF Making, Idle
  <2>2. TopicsOf(g)'
    BY <1>4, <1>5, <2>1, SettledTopics
  <2>3. QED BY <1>4, <1>5, <2>1, <2>2, OtherTopics
<1>9. QED BY <1>5, <1>6, <1>7, <1>8, GrantStepKeeps DEF Good, IInv

(* The owner looked, or Telegram said that the topic is gone: the count of *)
(* topics made begins anew.                                                *)
LEMMA AnewStep ==
  ASSUME SharingAssumption, IInv, NEW g \in Grants, GrantStep(g), Changes(g),
         bridge' = Idle \/ (mem'[g] \in Grant /\ bridge' = Job("prepare", g, None, None)),
         made' = [made EXCEPT ![g] = 0],
         pass' \in {pass, None}, UNCHANGED <<world, sweep, pending>>
  PROVE  Good
<1>1. bridge' = Idle \/ (/\ bridge' \in BridgeJob /\ bridge'.at = "prepare" /\ bridge'.grant = g
                         /\ mem'[g] # None)
  <2>1. "prepare" \in BridgeAt /\ None \in Mirror
    BY DEF BridgeAt, Mirror
  <2>2. CASE mem'[g] \in Grant /\ bridge' = Job("prepare", g, None, None)
    <3>1. mem'[g] # None
      BY <2>2, GrantParts
    <3>2. QED BY <2>1, <2>2, <3>1, NewJob
  <2>3. QED BY <2>2
<1>2. made' \in [Grants -> Nat] /\ made'[g] = 0 /\ \A h \in Grants : h # g => made'[h] = made[h]
  BY DEF IInv, TypeOK
<1>3. TypeOK'
  <2>1. guest' = guest /\ inflight' \subseteq inflight /\ denied' \in [Grants -> Nat]
    BY DEF GrantStep, Cancelled
  <2>2. QED BY <1>1, <1>2, <2>1 DEF IInv, TypeOK, Spent, Changes, world
<1>4. JobOK'
  BY <1>1, JobKept, GrantStepKeeps DEF Idle
<1>5. TopicOK'
  <2>1. \A h \in Grants : ~Making(h)'
    BY <1>1 DEF Making, Idle
  <2>2. TopicsOf(g)'
    BY <1>2, <2>1 DEF TopicsOf
  <2>3. QED BY <1>2, <2>1, <2>2, OtherTopics
<1>6. QED BY <1>3, <1>4, <1>5, GrantStepKeeps DEF Good, IInv

LEMMA RepairStep == ASSUME SharingAssumption, IInv, NEW g \in Grants, OwnerRepairs(g) PROVE Good
<1> DEFINE r == Put(mem[g], "pending", None)
<1>1. mem[g] \in Grant
  BY GrantOf DEF IInv, OwnerRepairs
<1>2. r \in Grant /\ r.rev = mem[g].rev + 1
  <2>1. "pending" \in States /\ None \in Mirror
    BY DEF States, Mirror
  <2>2. QED BY <1>1, <2>1, PutGrant
<1>3. Saved(With(g, r)) \/ Unsaved(With(g, r), With(g, r)) => Writes(g, r)
  BY <1>2, SavedWrites DEF IInv
<1>4. /\ bridge = Idle /\ mem[g].state \in {"needs-repair", "pending"} /\ Writes(g, r)
      /\ bridge' = Idle \/ bridge' = Job("prepare", g, None, None)
      /\ UNCHANGED <<guest, inflight, denied>>
  BY <1>3 DEF OwnerRepairs, Free
<1> HIDE DEF r
<1>5. denied[g] = 0
  BY <1>4 DEF IInv, DenialOK, Denied
<1>6. GrantStep(g) /\ Changes(g) /\ mem'[g] = r /\ mem'[g] # None
  BY <1>1, <1>2, <1>4, <1>5, NewRevision DEF IInv, TypeOK
<1>7. made' = [made EXCEPT ![g] = 0] /\ UNCHANGED <<world, pass, sweep, pending>>
  BY DEF OwnerRepairs
<1>8. QED BY <1>2, <1>4, <1>6, <1>7, AnewStep

LEMMA MissingStep == ASSUME SharingAssumption, IInv, Missing PROVE Good
<1>0. PICK g \in Grants : g = bridge.grant
  BY JobTypes DEF Missing, IInv
<1> DEFINE r == Put(mem[g], "pending", None)
<1>1. mem[g] \in Grant
  BY <1>0, JobTypes, GrantOf DEF Missing, IInv, JobOK, Idle
<1>2. r \in Grant /\ r.rev = mem[g].rev + 1
  <2>1. "pending" \in States /\ None \in Mirror
    BY DEF States, Mirror
  <2>2. QED BY <1>1, <2>1, PutGrant
<1>3. Saved(With(g, r)) \/ Unsaved(With(g, r), With(g, r)) => Writes(g, r)
  BY <1>2, SavedWrites DEF IInv
<1>4. \/ bridge' = Idle /\ UNCHANGED <<policy, inflight, made>>
      \/ /\ mem[g].state = "active" /\ Writes(g, r) /\ inflight' = Cancelled(g)
         /\ made' = [made EXCEPT ![g] = 0]
         /\ bridge' = Idle \/ bridge' = Job("prepare", g, None, None)
  BY <1>0, <1>3 DEF Missing, Cancel
<1> HIDE DEF r
<1>5. pass' = None /\ UNCHANGED <<world, sweep, guest, denied, pending>>
  BY DEF Missing
<1>6. CASE bridge' = Idle /\ UNCHANGED <<policy, inflight, made>>
  <2>1. GrantStep(g) /\ Changes(g) /\ mem'[g] = mem[g]
    BY <1>5, <1>6, NoRevision
  <2>2. TypeOK'
    BY <1>5, <1>6 DEF IInv, TypeOK, policy, world
  <2>3. JobOK'
    BY <1>5, <1>6, <2>1, JobKept, GrantStepKeeps DEF Idle
  <2>4. TopicOK'
    <3>1. \A h \in Grants : ~Making(h)'
      BY <1>6 DEF Making, Idle
    <3>2. TopicsOf(g)'
      BY <1>6, <2>1, <3>1, SettledTopics
    <3>3. QED BY <1>5, <1>6, <2>1, <3>1, <3>2, OtherTopics
  <2>5. QED BY <2>1, <2>2, <2>3, <2>4, GrantStepKeeps DEF Good, IInv
<1>7. CASE /\ mem[g].state = "active" /\ Writes(g, r) /\ inflight' = Cancelled(g)
           /\ made' = [made EXCEPT ![g] = 0]
           /\ bridge' = Idle \/ bridge' = Job("prepare", g, None, None)
  <2>1. denied[g] = 0
    BY <1>7 DEF IInv, DenialOK, Denied
  <2>2. GrantStep(g) /\ Changes(g) /\ mem'[g] = r /\ mem'[g] # None
    BY <1>1, <1>2, <1>5, <1>7, <2>1, NewRevision DEF IInv, TypeOK
  <2>3. QED BY <1>2, <1>5, <1>7, <2>2, AnewStep
<1>8. QED BY <1>4, <1>6, <1>7

---------------------------------------------------------------------------
(* The owner and the retention change a grant.                             *)

LEMMA ResumeStep == ASSUME SharingAssumption, IInv, NEW g \in Grants, OwnerResumes(g) PROVE Good
<1> DEFINE r == To(mem[g], "active", "owner")
           f == Fallback(r)
<1>1. mem[g] \in Grant
  BY GrantOf DEF IInv, OwnerResumes
<1>2. /\ r \in Grant /\ r.rev = mem[g].rev + 1 /\ r.mirror = mem[g].mirror /\ r.reason = "owner"
      /\ f \in Grant /\ f.rev = mem[g].rev + 1 /\ f.mirror = mem[g].mirror
      /\ f.state = "suspended" /\ f.reason = "owner"
  <2>1. "active" \in States /\ "owner" \in Reasons
    BY DEF States, Reasons
  <2>2. r \in Grant /\ r.rev = mem[g].rev + 1 /\ r.mirror = mem[g].mirror /\ r.reason = "owner"
    BY <1>1, <2>1, MovedGrant
  <2> HIDE DEF r
  <2>3. QED BY <2>2, EditedGrant
<1> HIDE DEF f
<1>3. /\ inflight' = Cancelled(g)
      /\ \/ Saved(With(g, r)) /\ denied' = [denied EXCEPT ![g] = 0]
         \/ Unsaved(With(g, r), With(g, f)) /\ UNCHANGED denied
  BY DEF OwnerResumes, f, Cancel
<1>4. /\ bridge = Idle /\ bridge' = Idle /\ sweep' = sweep /\ guest' = guest /\ made' = made
      /\ pass' = pass /\ pending' = pending /\ agent' = agent /\ events' = events /\ topics' = topics
  BY DEF OwnerResumes, world, Free
<1> HIDE DEF r
<1>5. denied' \in [Grants -> Nat] /\ \A h \in Grants : h # g => denied'[h] = denied[h]
  <2>1. denied \in [Grants -> Nat]
    BY DEF IInv, TypeOK
  <2>2. denied' = denied \/ denied' = [denied EXCEPT ![g] = 0]
    BY <1>3
  <2>3. QED BY <2>1, <2>2
<1>6. GrantStep(g) /\ Changes(g) /\ (NoMirror(mem'[g]) => NoMirror(mem[g]))
  <2>1. CASE Saved(With(g, r)) /\ denied' = [denied EXCEPT ![g] = 0]
    <3>1. Writes(g, r)
      BY <1>2, <2>1, SavedWrites, WithTypes DEF IInv, Saved, Writes, TypeOK, Spent
    <3>2. denied'[g] = 0
      BY <2>1 DEF IInv, TypeOK
    <3>3. GrantStep(g) /\ Changes(g) /\ mem'[g] = r /\ mem'[g] # None
      BY <1>1, <1>2, <1>3, <1>4, <1>5, <3>1, <3>2, NewRevision
    <3>4. QED BY <1>2, <3>3 DEF NoMirror
  <2>2. CASE Unsaved(With(g, r), With(g, f)) /\ UNCHANGED denied
    <3>1. Writes(g, r) \/ Writes(g, f)
      BY <1>2, <2>2, SavedWrites DEF IInv
    <3>2. mem' = With(g, f)
      BY <2>2 DEF Unsaved
    <3>3. Writes(g, f)
      BY <3>1, <3>2 DEF Writes
    <3>4. Denied(f)
      BY <1>2, GrantParts DEF Denied
    <3>5. denied'[g] = denied[g]
      BY <2>2
    <3>6. GrantStep(g) /\ Changes(g) /\ mem'[g] = f /\ mem'[g] # None
      BY <1>1, <1>2, <1>3, <1>4, <1>5, <3>3, <3>4, <3>5, NewRevision
    <3>7. QED BY <1>2, <3>6 DEF NoMirror
  <2>3. QED BY <1>3, <2>1, <2>2
<1>7. TypeOK'
  BY <1>3, <1>4, <1>5, <1>6 DEF IInv, TypeOK, Spent, Changes, Cancelled
<1>8. JobOK'
  BY <1>4, <1>6, JobKept, GrantStepKeeps DEF Idle
<1>9. TopicOK'
  <2>1. \A h \in Grants : ~Making(h)'
    BY <1>4 DEF Making, Idle
  <2>2. TopicsOf(g)'
    BY <1>4, <1>6, <2>1, SettledTopics
  <2>3. QED BY <1>4, <1>6, <2>1, <2>2, OtherTopics
<1>10. QED BY <1>6, <1>7, <1>8, <1>9, GrantStepKeeps DEF Good, IInv

(* The owner denies: under a new revision, and nothing of the old one goes *)
(* on.                                                                     *)
LEMMA DenyWrites ==
  ASSUME IInv, NEW g \in Grants, mem[g] \in Grant, NEW next \in {"revoked", "suspended"},
         Save(With(g, To(mem[g], next, "owner"))), inflight' = Cancelled(g), guest' = guest,
         denied' = [denied EXCEPT ![g] = mem[g].rev + 1]
  PROVE  /\ GrantStep(g) /\ Changes(g) /\ denied' \in [Grants -> Nat]
         /\ mem'[g] \in Grant /\ mem'[g].mirror = mem[g].mirror
<1> DEFINE r == To(mem[g], next, "owner")
<1>1. r \in Grant /\ r.rev = mem[g].rev + 1 /\ r.mirror = mem[g].mirror /\ r.reason = "owner" /\ r.state = next
  <2>1. next \in States /\ "owner" \in Reasons
    BY DEF States, Reasons
  <2>2. QED BY <2>1, MovedGrant
<1> HIDE DEF r
<1>2. Writes(g, r)
  BY <1>1, SavedWrites DEF r, IInv, Save
<1>3. Denied(r)
  BY <1>1, GrantParts DEF Denied
<1>4. mem[g].rev \in Nat
  BY GrantParts
<1>5. /\ denied' \in [Grants -> Nat] /\ denied'[g] = mem[g].rev + 1
      /\ \A h \in Grants : h # g => denied'[h] = denied[h]
  BY <1>4 DEF IInv, TypeOK
<1>6. GrantStep(g) /\ Changes(g) /\ mem'[g] = r /\ mem'[g] # None
  BY <1>1, <1>2, <1>3, <1>5, NewRevision
<1>7. QED BY <1>1, <1>5, <1>6

LEMMA DenyStep ==
  ASSUME SharingAssumption, IInv, NEW g \in Grants, NEW next \in {"revoked", "suspended"}, Deny(g, next)
  PROVE  Good
<1>1. mem[g] \in Grant /\ sweep = Idle
  BY GrantOf DEF IInv, Deny
<1>2. /\ bridge' = bridge /\ sweep' = sweep /\ guest' = guest /\ made' = made /\ inflight' = Cancelled(g)
      /\ pass' = pass /\ pending' = pending /\ agent' = agent /\ events' = events /\ topics' = topics
  BY DEF Deny, world, Cancel
<1>3. /\ GrantStep(g) /\ Changes(g) /\ denied' \in [Grants -> Nat]
      /\ mem'[g] \in Grant /\ mem'[g].mirror = mem[g].mirror /\ mem'[g] # None
  BY <1>1, <1>2, DenyWrites, GrantParts DEF Deny
<1>4. TypeOK'
  BY <1>2, <1>3 DEF IInv, TypeOK, Spent, Changes, Cancelled
<1>5. bridge'.at = "activate" => bridge'.topic \in Topics
  BY <1>2 DEF IInv, JobOK
<1>6. JobOK'
  BY <1>2, <1>3, <1>5, JobKept, GrantStepKeeps
<1>7. TopicOK'
  <2>1. \A h \in Grants : Making(h)' => Making(h)
    BY <1>2 DEF Making
  <2>2. TopicsOf(g)
    BY DEF IInv, TopicOK
  <2>3. disk'[g] \in {disk[g], mem'[g]}
    BY <1>3 DEF Changes
  <2>4. (NoMirror(mem'[g]) => NoMirror(mem[g])) /\ (Intends(mem[g]) => Intends(mem'[g]))
    BY <1>3 DEF NoMirror, Intends
  <2>5. NoMirror(mem'[g]) \/ NoMirror(disk'[g]) => NoMirror(mem[g]) \/ NoMirror(disk[g])
    BY <2>3, <2>4
  <2>6. TopicsOf(g)'
    BY <1>1, <1>2, <2>1, <2>2, <2>3, <2>4, <2>5, TopicKept
  <2>7. QED BY <1>2, <1>3, <2>1, <2>6, OtherTopics
<1>8. QED BY <1>3, <1>4, <1>6, <1>7, GrantStepKeeps DEF Good, IInv

LEMMA OwnerDeletesStep == ASSUME SharingAssumption, IInv, NEW g \in Grants, OwnerDeletes(g) PROVE Good
<1>1. mem[g] \in Grant /\ bridge = Idle
  BY GrantOf DEF IInv, OwnerDeletes, Free
<1>2. /\ sweep' = sweep /\ guest' = guest /\ made' = made /\ inflight' = Cancelled(g)
      /\ pass' = pass /\ pending' = pending /\ agent' = agent /\ events' = events /\ topics' = topics
  BY DEF OwnerDeletes, world, Cancel
<1>3. /\ GrantStep(g) /\ Changes(g) /\ denied' \in [Grants -> Nat]
      /\ mem'[g] \in Grant /\ mem'[g].mirror = mem[g].mirror /\ mem'[g] # None
  <2>1. Save(With(g, To(mem[g], "revoked", "owner")))
    BY DEF OwnerDeletes, Save
  <2>2. QED BY <1>1, <1>2, <2>1, DenyWrites, GrantParts DEF OwnerDeletes
<1>4. bridge' = Idle \/ (bridge' \in BridgeJob /\ bridge'.at = "delete" /\ bridge'.grant = g)
  <2>1. bridge' = Idle \/ (mem[g].mirror \in Topics /\ bridge' = Job("delete", g, mem[g].mirror, None))
    BY <1>1 DEF OwnerDeletes
  <2>2. QED BY <1>3, <2>1, NewJob DEF BridgeAt, Mirror
<1>5. TypeOK'
  BY <1>2, <1>3, <1>4 DEF IInv, TypeOK, Spent, Changes, Cancelled
<1>6. JobOK'
  BY <1>2, <1>3, <1>4, JobKept, GrantStepKeeps DEF Idle
<1>7. TopicOK'
  <2>1. \A h \in Grants : ~Making(h)'
    BY <1>4 DEF Making, Idle
  <2>2. NoMirror(mem'[g]) => NoMirror(mem[g])
    BY <1>3 DEF NoMirror
  <2>3. TopicsOf(g)'
    BY <1>2, <1>3, <2>1, <2>2, SettledTopics
  <2>4. QED BY <1>2, <1>3, <2>1, <2>3, OtherTopics
<1>8. QED BY <1>3, <1>5, <1>6, <1>7, GrantStepKeeps DEF Good, IInv

LEMMA RetireStep == ASSUME SharingAssumption, IInv, NEW g \in Grants, Retire(g) PROVE Good
<1> DEFINE r == Retained(mem[g])
<1>1. mem[g] \in Grant /\ sweep = Idle
  BY GrantOf DEF IInv, Retire
<1>2. /\ r \in Grant /\ r.mirror = mem[g].mirror /\ r.state = "revoked"
      /\ r.rev = IF mem[g].state = "revoked" THEN mem[g].rev ELSE mem[g].rev + 1
  BY <1>1, RetainedGrant
<1>3. /\ mem[g].reason \in {"exited", "retention"} /\ mem[g].mirror \in Topics
      /\ inflight' = Cancelled(g)
      /\ (Saved(With(g, r)) /\ sweep' = Job("retired", g, mem[g].mirror, None))
           \/ (Unsaved(With(g, r), With(g, r)) /\ UNCHANGED sweep)
  BY DEF Retire, Cancel
<1>4. /\ bridge' = bridge /\ guest' = guest /\ made' = made /\ denied' = denied
      /\ pass' = pass /\ pending' = pending /\ agent' = agent /\ events' = events /\ topics' = topics
  BY DEF Retire, world
<1> HIDE DEF r
<1>5. Writes(g, r)
  BY <1>2, <1>3, SavedWrites DEF IInv
<1>6. denied[g] = 0
  BY <1>3 DEF IInv, DenialOK, Denied
<1>7. GrantStep(g) /\ Changes(g) /\ mem'[g] = r /\ mem'[g] # None
  <2>1. CASE mem[g].state # "revoked"
    <3>1. r.rev = mem[g].rev + 1
      BY <1>2, <2>1
    <3>2. denied' \in [Grants -> Nat] /\ denied'[g] = 0 /\ \A h \in Grants : h # g => denied'[h] = denied[h]
      BY <1>4, <1>6 DEF IInv, TypeOK
    <3>3. QED BY <1>1, <1>2, <1>3, <1>4, <1>5, <3>1, <3>2, NewRevision
  <2>2. CASE mem[g].state = "revoked"
    <3>1. r.rev = mem[g].rev /\ mem[g] # None /\ mem[g].rev \in Nat
      BY <1>1, <1>2, <2>2, GrantParts
    <3>2. Changes(g) /\ mem'[g] = r /\ mem'[g] # None
      BY <1>2, <1>5, <3>1, WriteTypes DEF IInv
    <3>3. ~Busy(g)
      BY <2>2, NotBusy
    <3>4. Rev0(mem'[g]) = Rev0(mem[g]) /\ mem'[g].state = mem[g].state
      BY <1>2, <2>2, <3>1, <3>2 DEF Rev0
    <3>5. QED BY <1>3, <1>4, <1>6, <3>1, <3>2, <3>3, <3>4 DEF GrantStep, IInv, TypeOK
  <2>3. QED BY <2>1, <2>2
<1>8. sweep' = Idle \/ (sweep' \in SweepJob /\ sweep'.grant = g)
  BY <1>1, <1>2, <1>3, <1>7, NewJob DEF Mirror
<1>9. TypeOK'
  BY <1>3, <1>4, <1>7, <1>8 DEF IInv, TypeOK, Spent, Changes, Cancelled
<1>10. bridge'.at = "activate" => bridge'.topic \in Topics
  BY <1>4 DEF IInv, JobOK
<1>11. JobOK'
  BY <1>4, <1>7, <1>8, <1>10, JobKept, GrantStepKeeps DEF Idle
<1>12. TopicOK'
  <2>1. \A h \in Grants : Making(h)' => Making(h)
    BY <1>4 DEF Making
  <2>2. ~Making(g)
    BY <1>3, SharingAssumption DEF IInv, TopicOK, TopicsOf, Intends, SharingAssumption
  <2>3. NoMirror(mem'[g]) => NoMirror(mem[g])
    BY <1>2, <1>7 DEF NoMirror
  <2>4. TopicsOf(g)'
    BY <1>4, <1>7, <2>1, <2>2, <2>3, SettledTopics
  <2>5. \A h \in Grants : h # g => ~(sweep' # Idle /\ sweep'.grant = h)
    BY <1>8
  <2>6. QED BY <1>4, <1>7, <2>1, <2>4, <2>5, OtherTopics
<1>13. QED BY <1>7, <1>9, <1>11, <1>12, GrantStepKeeps DEF Good, IInv

LEMMA ForgetStep ==
  ASSUME SharingAssumption, IInv, NEW by \in {"bridge", "sweep"}, ForgetMirror(by)
  PROVE  Good
<1>0. PICK g \in Grants : g = JobOf(by).grant
  BY JobTypes DEF ForgetMirror, IInv, JobOf
<1> DEFINE r == Mirrored(mem[g], None)
<1>1. mem[g] \in Grant
  BY <1>0, JobTypes, GrantOf DEF ForgetMirror, IInv, JobOK, JobOf, Idle
<1>2. r \in Grant /\ r.rev = mem[g].rev /\ r.state = mem[g].state /\ r.reason = mem[g].reason
  BY <1>1, EditedGrant DEF Mirror
<1>3. Save(With(g, r)) => Writes(g, r)
  BY <1>2, SavedWrites DEF IInv, Save
<1>4. \/ UNCHANGED <<policy, made>>
      \/ mem[g].state = "revoked" /\ Writes(g, r) /\ made' = [made EXCEPT ![g] = 0]
  BY <1>0, <1>3 DEF ForgetMirror
<1>5. /\ inflight' = inflight /\ guest' = guest /\ denied' = denied
      /\ pass' = pass /\ pending' = pending /\ agent' = agent /\ events' = events /\ topics' = topics
  BY DEF ForgetMirror, world
<1>6. \/ bridge' = Idle /\ sweep' = sweep
      \/ /\ bridge' = bridge /\ sweep' = Idle /\ sweep # Idle /\ sweep.grant = g
  BY <1>0 DEF ForgetMirror, SetJob, JobOf, Idle
<1> HIDE DEF r
<1>7. /\ GrantStep(g) /\ Changes(g) /\ mem'[g] # None
      /\ made' \in [Grants -> Nat] /\ \A h \in Grants : h # g => made'[h] = made[h]
  <2>1. CASE UNCHANGED <<policy, made>>
    BY <1>1, <1>5, <2>1, NoRevision, GrantParts DEF IInv, TypeOK
  <2>2. CASE mem[g].state = "revoked" /\ Writes(g, r) /\ made' = [made EXCEPT ![g] = 0]
    <3>1. mem[g] # None /\ mem[g].rev \in Nat
      BY <1>1, GrantParts
    <3>2. Changes(g) /\ mem'[g] = r /\ mem'[g] # None
      BY <1>2, <2>2, <3>1, WriteTypes DEF IInv
    <3>3. denied[g] # 0 => Denied(mem[g])
      BY DEF IInv, DenialOK
    <3>4. GrantStep(g)
      BY <1>2, <1>5, <3>1, <3>2, <3>3 DEF GrantStep, IInv, TypeOK, Denied, Rev0
    <3>5. QED BY <2>2, <3>2, <3>4 DEF IInv, TypeOK
  <2>3. QED BY <1>4, <2>1, <2>2
<1>8. TypeOK'
  BY <1>5, <1>6, <1>7 DEF IInv, TypeOK, Spent, Changes
<1>9. bridge'.at = "activate" => bridge'.topic \in Topics
  BY <1>6 DEF IInv, JobOK, Idle
<1>10. JobOK'
  BY <1>5, <1>6, <1>7, <1>9, JobKept, GrantStepKeeps
<1>11. TopicOK'
  <2>1. \A h \in Grants : Making(h)' => Making(h) /\ bridge' = bridge
    BY <1>6 DEF Making, Idle
  <2>2. \A h \in Grants : sweep' # Idle /\ sweep'.grant = h => sweep # Idle /\ sweep.grant = h
    BY <1>6
  <2>3. TopicsOf(g)
    BY DEF IInv, TopicOK
  <2>4. TopicsOf(g)'
    <3>1. CASE UNCHANGED <<policy, made>>
      BY <2>1, <2>2, <2>3, <3>1, TopicKept DEF policy
    <3>2. CASE mem[g].state = "revoked" /\ Writes(g, r) /\ made' = [made EXCEPT ![g] = 0]
      <4>1. made'[g] = 0
        BY <3>2 DEF IInv, TypeOK
      <4>2. ~Making(g)'
        BY <1>6, <2>1, <2>3, <3>2 DEF TopicsOf, Making, Idle
      <4>3. QED BY <4>1, <4>2 DEF TopicsOf
    <3>3. QED BY <1>4, <3>1, <3>2
  <2>5. QED BY <1>7, <2>1, <2>2, <2>4, OtherTopics
<1>12. QED BY <1>7, <1>8, <1>10, <1>11, GrantStepKeeps DEF Good, IInv

LEMMA OwnerGrantsStep ==
  ASSUME SharingAssumption, IInv, NEW who \in Recipients, NEW due \in Terms, OwnerGrants(who, due)
  PROVE  Good
<1>0. PICK g \in Grants, k \in Keys : g = bridge.grant /\ k = bridge.key
  BY JobTypes DEF OwnerGrants, IInv, CheckJob
<1> DEFINE old == IF mem[g] = None THEN NewGrant(who, k) ELSE mem[g]
           r == Renewed(old, due)
           f == Fallback(r)
<1>1. old \in Grant /\ (mem[g] # None => mem[g] \in Grant /\ old = mem[g]) /\ (mem[g] = None => old.rev = 0)
  BY NewGrantTypes, GrantOf DEF IInv
<1> HIDE DEF old
<1>2. /\ r \in Grant /\ r.rev = old.rev + 1 /\ r.reason = old.reason /\ r.mirror = old.mirror
  <2>1. due \in {"never", "later"}
    BY SharingAssumption DEF SharingAssumption
  <2>2. QED BY <1>1, <2>1, RenewedGrant
<1> HIDE DEF r
<1>3. /\ f \in Grant /\ f.rev = old.rev + 1 /\ f.reason = old.reason /\ f.mirror = old.mirror /\ f.state = "suspended"
  BY <1>2, EditedGrant
<1> HIDE DEF f
<1>4. \/ bridge' = Idle /\ UNCHANGED <<policy, inflight, denied>>
      \/ /\ inflight' = Cancelled(g)
         /\ \/ /\ Saved(With(g, r)) /\ denied' = [denied EXCEPT ![g] = 0]
               /\ bridge' \in {Job("card", g, r.mirror, k), Job("prepare", g, None, None)}
            \/ mem[g] = None /\ Unsaved(With(g, r), mem) /\ bridge' = Idle /\ UNCHANGED denied
            \/ mem[g] # None /\ Unsaved(With(g, r), With(g, f)) /\ bridge' = Idle /\ UNCHANGED denied
  BY <1>0 DEF OwnerGrants, f, r, old, Cancel
<1>5. /\ sweep' = sweep /\ guest' = guest /\ made' = made
      /\ pass' = pass /\ pending' = pending /\ agent' = agent /\ events' = events /\ topics' = topics
  BY DEF OwnerGrants, world
<1>6. /\ GrantStep(g) /\ Changes(g) /\ (NoMirror(mem'[g]) => NoMirror(mem[g]))
      /\ bridge' = Idle \/ (bridge' \in BridgeJob /\ bridge'.at \in {"card", "prepare"} /\ bridge'.grant = g /\ mem'[g] # None)
  <2>0. CASE bridge' = Idle /\ UNCHANGED <<policy, inflight, denied>>
    BY <1>5, <2>0, NoRevision
  <2>1. CASE /\ inflight' = Cancelled(g) /\ Saved(With(g, r)) /\ denied' = [denied EXCEPT ![g] = 0]
             /\ bridge' \in {Job("card", g, r.mirror, k), Job("prepare", g, None, None)}
    <3>1. Writes(g, r)
      BY <1>2, <2>1, SavedWrites, WithTypes DEF IInv, Saved, Writes, TypeOK, Spent
    <3>2. mem[g] # None => mem[g].rev \in Nat /\ r.rev = mem[g].rev + 1
      BY <1>1, <1>2, GrantParts
    <3>3. mem[g] # None => mem[g].rev <= r.rev
      BY <3>2
    <3>4. Changes(g) /\ mem'[g] = r /\ mem'[g] # None
      BY <1>2, <3>1, <3>3, WriteTypes DEF IInv
    <3>5. ~Busy(g)'
      BY <2>1 DEF Busy, Cancelled
    <3>6. denied' \in [Grants -> Nat] /\ denied'[g] = 0 /\ \A h \in Grants : h # g => denied'[h] = denied[h]
      BY <2>1 DEF IInv, TypeOK
    <3>7. Rev0(mem[g]) < Rev0(mem'[g])
      BY <1>1, <1>2, <3>2, <3>4 DEF Rev0
    <3>8. GrantStep(g)
      BY <1>5, <2>1, <3>4, <3>5, <3>6, <3>7 DEF GrantStep
    <3>9. NoMirror(mem'[g]) => NoMirror(mem[g])
      BY <1>1, <1>2, <3>4 DEF NoMirror
    <3>10. bridge' \in BridgeJob /\ bridge'.at \in {"card", "prepare"} /\ bridge'.grant = g
      <4>1. r.mirror \in Mirror /\ None \in Mirror /\ {"card", "prepare"} \subseteq BridgeAt
        BY <1>2, GrantParts DEF BridgeAt, Mirror
      <4>2. mem'[g] \in Grant
        BY <1>2, <3>4
      <4>3. \A at \in {"card", "prepare"}, m \in {r.mirror, None}, l \in {k, None} :
              Job(at, g, m, l) \in BridgeJob /\ Job(at, g, m, l).at = at /\ Job(at, g, m, l).grant = g
        <5>1. ASSUME NEW at \in {"card", "prepare"}, NEW m \in {r.mirror, None}, NEW l \in {k, None}
              PROVE  Job(at, g, m, l) \in BridgeJob /\ Job(at, g, m, l).at = at /\ Job(at, g, m, l).grant = g
          <6>1. m \in Mirror /\ l \in Keys \cup {None} /\ at \in BridgeAt
            BY <4>1
          <6>2. QED BY <4>2, <6>1, NewJob
        <5>2. QED BY <5>1
      <4>4. CASE bridge' = Job("card", g, r.mirror, k)
        BY <4>3, <4>4
      <4>5. CASE bridge' = Job("prepare", g, None, None)
        BY <4>3, <4>5
      <4>6. QED BY <2>1, <4>4, <4>5
    <3>11. QED BY <3>4, <3>8, <3>9, <3>10
  <2>2. CASE /\ inflight' = Cancelled(g) /\ bridge' = Idle /\ UNCHANGED denied
             /\ mem[g] = None /\ Unsaved(With(g, r), mem)
    <3>1. mem' = mem /\ disk' = disk /\ spent' \in Spent
      BY <1>2, <2>2, SavedOrNot, WithTypes DEF IInv, TypeOK, Unsaved, Spent
    <3>2. Changes(g)
      BY <3>1, SameTypes DEF IInv
    <3>3. ~Busy(g)
      BY <2>2, NotBusy
    <3>4. denied[g] = 0
      BY <2>2 DEF IInv, DenialOK, Denied
    <3>5. GrantStep(g)
      BY <1>5, <2>2, <3>1, <3>2, <3>3, <3>4 DEF GrantStep, IInv, TypeOK
    <3>6. QED BY <2>2, <3>1, <3>2, <3>5
  <2>3. CASE /\ inflight' = Cancelled(g) /\ bridge' = Idle /\ UNCHANGED denied
             /\ mem[g] # None /\ Unsaved(With(g, r), With(g, f))
    <3>1. Writes(g, r) \/ Writes(g, f)
      BY <1>2, <1>3, <2>3, SavedWrites DEF IInv
    <3>2. mem' = With(g, f)
      BY <2>3 DEF Unsaved
    <3>3. Writes(g, f)
      BY <3>1, <3>2 DEF Writes
    <3>4. mem[g] \in Grant /\ f.rev = mem[g].rev + 1
      BY <1>1, <1>3, <2>3
    <3>5. denied[g] # 0 => Denied(f)
      BY <1>1, <1>3, <2>3, GrantParts DEF IInv, DenialOK, Denied
    <3>6. denied' \in [Grants -> Nat] /\ \A h \in Grants : denied'[h] = denied[h]
      BY <2>3 DEF IInv, TypeOK
    <3>7. GrantStep(g) /\ Changes(g) /\ mem'[g] = f /\ mem'[g] # None
      BY <1>3, <1>5, <2>3, <3>3, <3>4, <3>5, <3>6, NewRevision
    <3>8. NoMirror(mem'[g]) => NoMirror(mem[g])
      BY <1>1, <1>3, <2>3, <3>7 DEF NoMirror
    <3>9. QED BY <2>3, <3>7, <3>8
  <2>4. QED BY <1>4, <2>0, <2>1, <2>2, <2>3
<1>7. TypeOK'
  BY <1>4, <1>5, <1>6 DEF IInv, TypeOK, Spent, Changes, Cancelled, GrantStep
<1>8. JobOK'
  BY <1>5, <1>6, JobKept, GrantStepKeeps DEF Idle
<1>9. TopicOK'
  <2>1. \A h \in Grants : ~Making(h)'
    BY <1>6 DEF Making, Idle
  <2>2. TopicsOf(g)'
    BY <1>5, <1>6, <2>1, SettledTopics
  <2>3. QED BY <1>5, <1>6, <2>1, <2>2, OtherTopics
<1>10. QED BY <1>6, <1>7, <1>8, <1>9, GrantStepKeeps DEF Good, IInv

---------------------------------------------------------------------------
(* Steps that leave the policy alone.                                      *)

GuestWork == {w \in inflight : w.by = "guest"}

LEMMA QuietStep ==
  ASSUME SharingAssumption, IInv, mem' = mem, disk' \in {disk, mem}, UNCHANGED <<guest, denied>>, TypeOK', GuestWork' = GuestWork,
         pass' = None \/ (pass' = pass /\ pending' = pending) \/ PassOK',
         \/ bridge' = Idle \/ bridge' = bridge \/ bridge'.at = "check"
         \/ bridge'.grant \in Grants /\ mem[bridge'.grant] # None /\ bridge'.at \notin {"create", "creating"}
         \/ bridge # Idle /\ bridge.at # "check" /\ bridge'.grant = bridge.grant,
         sweep' = Idle \/ (sweep # Idle /\ sweep'.grant = sweep.grant),
         bridge'.at = "activate" => bridge'.topic \in Topics,
         bridge'.at \in {"create", "creating"} => bridge.at \in {"create", "creating"},
         \A h \in Grants : \/ made'[h] = made[h]
                           \/ Making(h) /\ made'[h] = made[h] + 1 /\ ~Making(h)'
  PROVE  Good
<1>1. mem' = mem /\ disk' \in {disk, mem} /\ denied' = denied
  OBVIOUS
<1>2. JobOK'
  BY <1>1, JobKept
<1>3. DenialOK'
  <2>1. \A h \in Grants : mem[h] # None => mem[h].rev \in Nat
    BY GrantOf, GrantParts DEF IInv
  <2>2. QED BY <1>1, <2>1 DEF IInv, DenialOK, Denied
<1>4. TopicOK'
  <2>1. SUFFICES ASSUME NEW h \in Grants PROVE TopicsOf(h)'
    BY DEF TopicOK
  <2>2. TopicsOf(h)
    BY DEF IInv, TopicOK
  <2>3. CASE made'[h] = made[h]
    <3>1. Making(h)' => Making(h)
      BY DEF Making, Idle
    <3>2. sweep' # Idle /\ sweep'.grant = h => sweep # Idle /\ sweep.grant = h
      OBVIOUS
    <3>3. QED BY <1>1, <2>2, <2>3, <3>1, <3>2, TopicKept
  <2>4. CASE Making(h) /\ made'[h] = made[h] + 1 /\ ~Making(h)'
    <3>1. made[h] = 0 /\ ~NoMirror(mem[h]) /\ ~NoMirror(disk[h])
      BY <2>2, <2>4, SharingAssumption DEF TopicsOf, Intends, NoMirror, SharingAssumption
    <3>2. ~NoMirror(mem[h])' /\ ~NoMirror(disk[h])'
      BY <1>1, <3>1 DEF NoMirror
    <3>3. QED BY <2>4, <3>1, <3>2 DEF TopicsOf
  <2>5. QED BY <2>3, <2>4
<1>5. WorkOK'
  <2>1. \A w \in inflight' : w.by = "guest" => w \in inflight
    BY DEF GuestWork
  <2>2. QED BY <1>1, <2>1 DEF IInv, WorkOK
<1>6. [Access!Next]_(Access!vars)
  <2>1. Open' = Open /\ \A h \in Grants : Rev0(mem'[h]) = Rev0(mem[h])
    BY <1>1 DEF Open
  <2>2. Admitted' = Admitted
    BY DEF Admitted, GuestWork
  <2>3. QED BY <2>1, <2>2, AccessStutters
<1>7. QED BY <1>2, <1>3, <1>4, <1>5, <1>6 DEF Good, IInv

LEMMA CreateStep == ASSUME SharingAssumption, IInv, Create PROVE Good
<1>1. /\ bridge \in BridgeJob /\ bridge.at = "create" /\ bridge # Idle
      /\ bridge.grant \in Grants /\ bridge.rev \in Nat
  BY JobTypes DEF Create, IInv, Idle
<1>2. UNCHANGED <<policy, world, pass, guest, made, denied, pending>>
  BY DEF Create
<1>3. /\ Step("creating") \in BridgeJob /\ Step("creating").at = "creating" /\ Step("creating").grant = bridge.grant
      /\ Step("failed") \in BridgeJob /\ Step("failed").at = "failed" /\ Step("failed").grant = bridge.grant
  BY <1>1, MovedJob DEF Step, BridgeAt
<1>4. /\ sweep' = sweep /\ bridge' \in {Step("creating"), Step("failed")}
      /\ inflight' \in {inflight, inflight \cup {Token(bridge.grant, bridge.rev, "bridge")}}
  BY DEF Create, Dispatch, JobOf, SetJob
<1>5. TypeOK'
  BY <1>1, <1>2, <1>3, <1>4, SMTT(60) DEF IInv, TypeOK, Token, policy, world
<1>6. GuestWork' = GuestWork
  BY <1>4 DEF GuestWork, Token
<1>7. QED BY <1>1, <1>2, <1>3, <1>4, <1>5, <1>6, QuietStep DEF policy

LEMMA CreatedStep == ASSUME SharingAssumption, IInv, Created PROVE Good
<1>0. PICK g \in Grants : g = bridge.grant
  BY JobTypes DEF Created, IInv, Idle
<1>1. bridge \in BridgeJob /\ bridge.at = "creating" /\ bridge # Idle
  BY JobTypes DEF Created, IInv, Idle
<1>2. UNCHANGED <<policy, agent, events, pass, sweep, guest, denied, pending>> /\ inflight' = {w \in inflight : w.by # "bridge"}
  BY DEF Created, Release
<1>3. Step("failed") \in BridgeJob /\ Step("failed").at = "failed" /\ Step("failed").grant = g
  BY <1>0, <1>1, MovedJob DEF Step, BridgeAt
<1>4. /\ bridge' \in BridgeJob /\ bridge'.grant = g /\ bridge'.at \in {"activate", "failed"}
      /\ bridge'.at = "activate" => bridge'.topic \in Topics
  BY <1>0, <1>1, <1>3, ActivatingJob DEF Created
<1>5. topics' \subseteq [topic : Topics, grant : Grants]
  BY <1>0 DEF Created, IInv, TypeOK
<1>6. made' = made \/ made' = [made EXCEPT ![g] = @ + 1]
  BY <1>0 DEF Created
<1>7. TypeOK'
  <2>0. made \in [Grants -> Nat] /\ made[g] + 1 \in Nat
    BY DEF IInv, TypeOK
  <2>1. made' \in [Grants -> Nat]
    BY <1>6, <2>0
  <2>2. QED BY <1>2, <1>4, <1>5, <2>1 DEF IInv, TypeOK, policy
<1>8. GuestWork' = GuestWork
  BY <1>2 DEF GuestWork
<1>9. ASSUME NEW h \in Grants
      PROVE  \/ made'[h] = made[h]
             \/ Making(h) /\ made'[h] = made[h] + 1 /\ ~Making(h)'
  <2>1. ~Making(h)'
    BY <1>4 DEF Making
  <2>2. Making(g)
    BY <1>0, <1>1 DEF Making
  <2>3. QED BY <1>6, <2>1, <2>2 DEF IInv, TypeOK
<1>10. QED BY <1>0, <1>1, <1>2, <1>4, <1>7, <1>8, <1>9, QuietStep DEF policy

LEMMA EditStep == ASSUME SharingAssumption, IInv, Edit PROVE Good
<1>1. /\ bridge \in BridgeJob /\ bridge.at \in {"edit", "card"} /\ bridge # Idle
      /\ bridge.grant \in Grants /\ bridge.rev \in Nat
  BY JobTypes DEF Edit, IInv, Idle
<1>2. UNCHANGED <<policy, world, pass, sweep, guest, made, denied, pending>>
  BY DEF Edit
<1>3. \A at \in {"editing", "carding"} : Step(at) \in BridgeJob /\ Step(at).at = at /\ Step(at).grant = bridge.grant
  BY <1>1, MovedJob DEF Step, BridgeAt
<1>4. /\ bridge' \in {Step("editing"), Step("carding"), Idle}
      /\ inflight' \in {inflight, inflight \cup {Token(bridge.grant, bridge.rev, "bridge")}}
  BY DEF Edit
<1>5. TypeOK'
  BY <1>1, <1>2, <1>3, <1>4, SMTT(60) DEF IInv, TypeOK, Token, policy, world
<1>6. GuestWork' = GuestWork
  BY <1>4 DEF GuestWork, Token
<1>7. QED BY <1>1, <1>2, <1>3, <1>4, <1>5, <1>6, QuietStep DEF Idle, policy

LEMMA MarkStep == ASSUME SharingAssumption, IInv, Mark PROVE Good
<1>1. /\ bridge \in BridgeJob /\ bridge.at = "mark" /\ bridge # Idle
      /\ bridge.grant \in Grants /\ bridge.rev \in Nat
  BY JobTypes DEF Mark, IInv, Idle
<1>2. UNCHANGED <<policy, world, pass, guest, made, denied, pending>>
  BY DEF Mark
<1>3. Step("marking") \in BridgeJob /\ Step("marking").at = "marking" /\ Step("marking").grant = bridge.grant
  BY <1>1, MovedJob DEF Step, BridgeAt
<1>4. /\ sweep' = sweep /\ bridge' \in {Step("marking"), Idle}
      /\ inflight' \in {inflight, inflight \cup {Token(bridge.grant, bridge.rev, "bridge")}}
  BY DEF Mark, Dispatch, JobOf, SetJob
<1>5. TypeOK'
  BY <1>1, <1>2, <1>3, <1>4, SMTT(60) DEF IInv, TypeOK, Token, policy, world
<1>6. GuestWork' = GuestWork
  BY <1>4 DEF GuestWork, Token
<1>7. QED BY <1>1, <1>2, <1>3, <1>4, <1>5, <1>6, QuietStep DEF Idle, policy

LEMMA SaveSame ==
  ASSUME IInv, UNCHANGED policy \/ Save(mem)
  PROVE  mem' = mem /\ disk' \in {disk, mem} /\ mem' \in Policy /\ disk' \in Policy /\ spent' \in Spent
<1>1. CASE UNCHANGED policy
  BY <1>1 DEF policy, IInv, TypeOK, Spent
<1>2. CASE Save(mem)
  BY <1>2, SaveTypes DEF IInv, TypeOK, Spent
<1>3. QED BY <1>1, <1>2

LEMMA EditedStep == ASSUME SharingAssumption, IInv, Edited PROVE Good
<1>1. bridge \in BridgeJob /\ bridge.at \in {"editing", "carding", "marking"} /\ bridge # Idle
  BY JobTypes DEF Edited, IInv, Idle
<1>2. UNCHANGED <<world, pass, sweep, guest, made, denied, pending>> /\ inflight' = {w \in inflight : w.by # "bridge"}
  BY DEF Edited, Release
<1>3. Step("missing") \in BridgeJob /\ Step("missing").at = "missing" /\ Step("missing").grant = bridge.grant
  BY <1>1, MovedJob DEF Step, BridgeAt
<1>4. bridge' \in {Step("missing"), Idle} /\ (UNCHANGED policy \/ Save(mem))
  BY DEF Edited
<1>5. mem' = mem /\ disk' \in {disk, mem} /\ mem' \in Policy /\ disk' \in Policy /\ spent' \in Spent
  BY <1>4, SaveSame
<1>6. TypeOK'
  BY <1>2, <1>3, <1>4, <1>5 DEF IInv, TypeOK, world, Spent
<1>7. GuestWork' = GuestWork
  BY <1>2 DEF GuestWork
<1>8. QED BY <1>1, <1>2, <1>3, <1>4, <1>5, <1>6, <1>7, QuietStep DEF Idle

LEMMA FlushPolicyStep == ASSUME SharingAssumption, IInv, FlushPolicy PROVE Good
<1>1. UNCHANGED <<world, inflight, bridge, pass, sweep, guest, made, denied, pending>> /\ Save(mem)
  BY DEF FlushPolicy
<1>2. mem' = mem /\ disk' \in {disk, mem} /\ mem' \in Policy /\ disk' \in Policy /\ spent' \in Spent
  BY <1>1, SaveSame
<1>3. TypeOK'
  BY <1>1, <1>2 DEF IInv, TypeOK, Spent, world
<1>4. GuestWork' = GuestWork
  BY <1>1 DEF GuestWork
<1>5. bridge'.at = "activate" => bridge'.topic \in Topics
  BY <1>1 DEF IInv, JobOK
<1>6. QED BY <1>1, <1>2, <1>3, <1>4, <1>5, QuietStep

(* The owner's press, before Telegram has answered.                        *)
LEMMA ApprovesStep ==
  ASSUME SharingAssumption, IInv, NEW k \in Keys, NEW g \in Grants, OwnerApproves(k, g)
  PROVE  Good
<1>1. /\ UNCHANGED <<policy, world, inflight, pass, sweep, guest, made, denied, pending>>
      /\ bridge' = [at |-> "check", grant |-> g, rev |-> IF mem[g] = None THEN 0 ELSE mem[g].rev,
                    topic |-> None, key |-> k]
  BY DEF OwnerApproves
<1>2. (IF mem[g] = None THEN 0 ELSE mem[g].rev) \in Nat
  BY GrantOf, GrantParts DEF IInv
<1>3. bridge' \in CheckJob /\ bridge'.at = "check"
  BY <1>1, <1>2 DEF CheckJob
<1>4. TypeOK'
  BY <1>1, <1>3 DEF IInv, TypeOK, policy, world
<1>5. GuestWork' = GuestWork
  BY <1>1 DEF GuestWork
<1>6. QED BY <1>1, <1>3, <1>4, <1>5, QuietStep DEF policy

(* A pass comes to a grant: to edit its topic, or to leave it.             *)
LEMMA EditOfJob ==
  ASSUME IInv, NEW g \in Grants, pass # None, pass.shown[g] # None
  PROVE  /\ EditOf(g) \in BridgeJob /\ EditOf(g).at \in {"edit", "mark"}
         /\ EditOf(g).grant = g /\ mem[g] # None
<1>1. pass \in Pass /\ pass.shown[g] \in ShownGrant /\ mem[g] # None
  BY DEF IInv, TypeOK, JobOK, PassOK, Pass
<1>2. QED BY <1>1 DEF EditOf, BridgeJob, BridgeAt, ShownGrant

LEMMA PassOnStep == ASSUME SharingAssumption, IInv, NEW g \in Grants, PassOn(g) PROVE Good
<1>1. /\ bridge = Idle /\ pass \in Pass /\ pass # None /\ pending[pass.key] \in Followed
      /\ pass.key \in Keys /\ pass.calls \in Nat /\ pass.shown \in [Grants -> ShownGrant \cup {None}]
  BY DEF PassOn, IInv, TypeOK, JobOK, PassOK, Pass
<1>2. /\ UNCHANGED <<policy, world, inflight, sweep, guest, made, denied>>
      /\ pending' = [pending EXCEPT ![pass.key].left = @ \ {g}]
      /\ \/ UNCHANGED <<bridge, pass>>
         \/ pass.shown[g] # None /\ bridge' = EditOf(g) /\ pass' = [pass EXCEPT !.calls = @ + 1]
  BY DEF PassOn
<1>3. /\ pass' \in Pass /\ pass'.key = pass.key /\ pass'.shown = pass.shown
  BY <1>1, <1>2 DEF Pass
<1>4. pending' \in [Keys -> Followed \cup {None}] /\ pending'[pass.key] \in Followed
  <2> DEFINE f == [pending[pass.key] EXCEPT !.left = @ \ {g}]
  <2>1. f \in Followed
    BY <1>1 DEF Followed
  <2>2. pending' = [pending EXCEPT ![pass.key] = f]
    BY <1>2
  <2> HIDE DEF f
  <2>3. QED BY <1>1, <2>1, <2>2 DEF IInv, TypeOK
<1>5. mem' = mem
  BY <1>2 DEF policy
<1>6. PassOK'
  BY <1>1, <1>3, <1>4, <1>5 DEF PassOK, IInv, JobOK
<1>7. \/ bridge' = Idle
      \/ bridge' \in BridgeJob /\ bridge'.at \in {"edit", "mark"} /\ bridge'.grant = g /\ mem[g] # None
  BY <1>1, <1>2, EditOfJob
<1>8. TypeOK'
  BY <1>2, <1>3, <1>4, <1>7 DEF IInv, TypeOK, policy, world
<1>9. GuestWork' = GuestWork
  BY <1>2 DEF GuestWork
<1>10. QED BY <1>1, <1>2, <1>6, <1>7, <1>8, <1>9, QuietStep DEF Idle, policy

LEMMA PassEndsStep == ASSUME SharingAssumption, IInv, PassEnds PROVE Good
<1>1. /\ bridge = Idle /\ pass' = None /\ UNCHANGED <<policy, world, inflight, bridge, sweep, guest, made, denied>>
      /\ pending' = pending \/ pending' = [pending EXCEPT ![pass.key] = None]
  BY DEF PassEnds
<1>2. pending' \in [Keys -> Followed \cup {None}]
  BY <1>1 DEF IInv, TypeOK
<1>3. TypeOK'
  BY <1>1, <1>2 DEF IInv, TypeOK, policy, world
<1>4. GuestWork' = GuestWork
  BY <1>1 DEF GuestWork
<1>5. QED BY <1>1, <1>3, <1>4, QuietStep DEF Idle, policy

LEMMA RetiredStep == ASSUME SharingAssumption, IInv, Retired PROVE Good
<1>1. sweep \in SweepJob /\ sweep # Idle /\ sweep.grant \in Grants
  BY JobTypes DEF Retired, IInv, Idle
<1>2. mem[sweep.grant] \in Grant /\ mem[sweep.grant].rev \in Nat
  BY <1>1, GrantOf, GrantParts DEF IInv, JobOK
<1>3. /\ UNCHANGED <<policy, world, inflight, bridge, pass, guest, made, denied, pending>>
      /\ sweep' = [sweep EXCEPT !.at = "delete", !.rev = mem[sweep.grant].rev]
  BY DEF Retired
<1>4. sweep' \in SweepJob /\ sweep'.grant = sweep.grant
  BY <1>1, <1>2, <1>3 DEF SweepJob
<1>5. TypeOK'
  BY <1>3, <1>4 DEF IInv, TypeOK, policy, world
<1>6. GuestWork' = GuestWork
  BY <1>3 DEF GuestWork
<1>7. bridge'.at = "activate" => bridge'.topic \in Topics
  BY <1>3 DEF IInv, JobOK
<1>8. QED BY <1>1, <1>3, <1>4, <1>5, <1>6, <1>7, QuietStep DEF policy

LEMMA DeleteStep ==
  ASSUME SharingAssumption, IInv, NEW by \in {"bridge", "sweep"}, Delete(by)
  PROVE  Good
<1>1. UNCHANGED <<policy, world, pass, guest, made, denied, pending>>
  BY DEF Delete
<1>2. /\ JobOf(by).grant \in Grants /\ JobOf(by).rev \in Nat
      /\ inflight' \in {inflight, inflight \cup {Token(JobOf(by).grant, JobOf(by).rev, by)}}
  BY JobTypes DEF Delete, Dispatch, JobOf, IInv
<1>3. /\ \/ bridge' = Idle \/ bridge' = bridge
         \/ /\ bridge' \in BridgeJob /\ bridge'.at = "deleting" /\ bridge # Idle /\ bridge.at # "check"
            /\ bridge'.grant = bridge.grant
      /\ sweep' = Idle \/ (sweep' \in SweepJob /\ sweep # Idle /\ sweep'.grant = sweep.grant)
  <2>1. CASE by = "bridge"
    <3>1. bridge \in BridgeJob /\ bridge # Idle /\ bridge.at # "check"
      BY <2>1, JobTypes DEF Delete, JobOf, IInv, Idle
    <3>2. /\ Moved(bridge, "deleting") \in BridgeJob /\ Moved(bridge, "deleting").at = "deleting"
          /\ Moved(bridge, "deleting").grant = bridge.grant /\ Moved(bridge, "deleting").topic = bridge.topic
      BY <3>1, MovedJob DEF BridgeAt
    <3>3. sweep' = sweep /\ bridge' \in {Idle, Moved(bridge, "deleting")}
      BY <2>1 DEF Delete, Dispatch, JobOf, SetJob
    <3>4. QED BY <3>1, <3>2, <3>3, JobTypes DEF IInv
  <2>2. CASE by = "sweep"
    <3>1. sweep \in SweepJob /\ sweep # Idle
      BY <2>2, JobTypes DEF Delete, JobOf, IInv, Idle
    <3>2. Moved(sweep, "deleting") \in SweepJob /\ Moved(sweep, "deleting").grant = sweep.grant
      BY <3>1, MovedSweep
    <3>3. bridge' = bridge /\ sweep' \in {Idle, Moved(sweep, "deleting")}
      BY <2>2 DEF Delete, Dispatch, JobOf, SetJob
    <3>4. QED BY <3>1, <3>2, <3>3, JobTypes DEF IInv
  <2>3. QED BY <2>1, <2>2
<1>4. TypeOK'
  <2>1. inflight' \subseteq [grant : Grants, revision : Nat, by : {"bridge", "sweep", "guest"}]
    BY <1>2 DEF IInv, TypeOK, Token
  <2>2. QED BY <1>1, <1>3, <2>1 DEF IInv, TypeOK, policy, world
<1>5. GuestWork' = GuestWork
  BY <1>2 DEF GuestWork, Token
<1>6. bridge'.at = "activate" => bridge'.topic \in Topics
  BY <1>3 DEF IInv, JobOK, Idle
<1>7. QED BY <1>1, <1>3, <1>4, <1>5, <1>6, QuietStep DEF Idle, policy

LEMMA DeletedStep ==
  ASSUME SharingAssumption, IInv, NEW by \in {"bridge", "sweep"}, Deleted(by)
  PROVE  Good
<1>1. /\ UNCHANGED <<policy, agent, events, pass, guest, made, denied, pending>>
      /\ inflight' = {w \in inflight : w.by # by} /\ topics' \subseteq topics
  BY DEF Deleted, Release
<1>2. /\ \/ bridge' = Idle \/ bridge' = bridge
         \/ /\ bridge' \in BridgeJob /\ bridge'.at = "forget" /\ bridge # Idle /\ bridge.at # "check"
            /\ bridge'.grant = bridge.grant
      /\ sweep' = Idle \/ (sweep' \in SweepJob /\ sweep # Idle /\ sweep'.grant = sweep.grant)
  <2>1. CASE by = "bridge"
    <3>1. bridge \in BridgeJob /\ bridge # Idle /\ bridge.at # "check"
      BY <2>1, JobTypes DEF Deleted, JobOf, IInv, Idle
    <3>2. /\ Moved(bridge, "forget") \in BridgeJob /\ Moved(bridge, "forget").at = "forget"
          /\ Moved(bridge, "forget").grant = bridge.grant /\ Moved(bridge, "forget").topic = bridge.topic
      BY <3>1, MovedJob DEF BridgeAt
    <3>3. sweep' = sweep /\ bridge' \in {Idle, Moved(bridge, "forget")}
      BY <2>1 DEF Deleted, JobOf, SetJob
    <3>4. QED BY <3>1, <3>2, <3>3, JobTypes DEF IInv
  <2>2. CASE by = "sweep"
    <3>1. sweep \in SweepJob /\ sweep # Idle
      BY <2>2, JobTypes DEF Deleted, JobOf, IInv, Idle
    <3>2. Moved(sweep, "forget") \in SweepJob /\ Moved(sweep, "forget").grant = sweep.grant
      BY <3>1, MovedSweep
    <3>3. bridge' = bridge /\ sweep' \in {Idle, Moved(sweep, "forget")}
      BY <2>2 DEF Deleted, JobOf, SetJob
    <3>4. QED BY <3>1, <3>2, <3>3, JobTypes DEF IInv
  <2>3. QED BY <2>1, <2>2
<1>3. TypeOK'
  BY <1>1, <1>2 DEF IInv, TypeOK, policy
<1>4. GuestWork' = GuestWork
  BY <1>1 DEF GuestWork
<1>5. bridge'.at = "activate" => bridge'.topic \in Topics
  BY <1>2 DEF IInv, JobOK, Idle
<1>6. QED BY <1>1, <1>2, <1>3, <1>4, <1>5, QuietStep DEF Idle, policy

LEMMA SpentMore == ASSUME TypeOK, Spend PROVE spent' \in Spent
BY DEF TypeOK, Spent, Spend

LEMMA WorldStep ==
  ASSUME SharingAssumption, IInv,
         (\E k \in Keys : AgentHere(k)) \/ AgentGone \/ (\E p \in topics : TopicVanishes(p))
  PROVE  /\ TypeOK' /\ UNCHANGED <<mem, disk, inflight, bridge, pass, sweep, guest, made, denied, pending>>
<1>1. CASE \E k \in Keys : AgentHere(k)
  <2>1. PICK k \in Keys : AgentHere(k)
    BY <1>1
  <2>2. events' \in Seq(Notice)
    BY <2>1 DEF AgentHere, Announce, Notice, IInv, TypeOK
  <2>3. spent' \in Spent
    BY <2>1, SpentMore DEF AgentHere, IInv
  <2>4. QED BY <2>1, <2>2, <2>3 DEF AgentHere, IInv, TypeOK, Spent
<1>2. CASE AgentGone
  <2>1. events' \in Seq(Notice)
    BY <1>2 DEF AgentGone, Announce, Notice, IInv, TypeOK
  <2>2. spent' \in Spent
    BY <1>2, SpentMore DEF AgentGone, IInv
  <2>3. QED BY <1>2, <2>1, <2>2 DEF AgentGone, IInv, TypeOK, Spent
<1>3. CASE \E p \in topics : TopicVanishes(p)
  <2>1. spent' \in Spent
    BY <1>3, SpentMore DEF TopicVanishes, IInv
  <2>2. QED BY <1>3, <2>1 DEF TopicVanishes, IInv, TypeOK, Spent
<1>4. QED BY <1>1, <1>2, <1>3

---------------------------------------------------------------------------
(* The guest.                                                              *)

(* While no work of a guest is admitted, or whatever was is over, only the *)
(* request has to be looked at.                                            *)
LEMMA GuestStep ==
  ASSUME IInv, UNCHANGED <<policy, world, bridge, pass, sweep, made, denied, pending>>, TypeOK', WorkOK'
  PROVE  IInv'
<1>1. pass' = pass /\ pending' = pending /\ mem' = mem /\ disk' = disk /\ denied' = denied /\ bridge' = bridge /\ sweep' = sweep /\ made' = made
  BY DEF policy
<1>2. JobOK'
  BY <1>1 DEF IInv, JobOK, PassOK
<1>3. DenialOK'
  BY <1>1 DEF IInv, DenialOK, Denied
<1>4. TopicOK'
  BY <1>1 DEF IInv, TopicOK, TopicsOf, NoMirror, Intends, Making
<1>5. QED BY <1>2, <1>3, <1>4 DEF IInv

LEMMA ArrivesStep == ASSUME SharingAssumption, IInv, NEW g \in Grants, Arrives(g) PROVE Good
<1>1. mem[g] \in Grant
  BY GrantOf DEF IInv, Arrives
<1>2. /\ UNCHANGED <<policy, world, inflight, bridge, pass, sweep, made, denied, pending>> /\ guest = None
      /\ guest' = [at |-> "queued", grant |-> g, rev |-> mem[g].rev, key |-> mem[g].key, mirror |-> mem[g].mirror]
  BY DEF Arrives
<1>3. guest' \in Request
  BY <1>1, <1>2, GrantParts DEF Request
<1>4. TypeOK'
  BY <1>2, <1>3 DEF IInv, TypeOK, policy, world
<1>5. WorkOK' /\ GuestWork = {} /\ GuestWork' = {}
  BY <1>2 DEF IInv, WorkOK, GuestWork
<1>6. [Access!Next]_(Access!vars)
  <2>1. Open' = Open /\ \A h \in Grants : Rev0(mem'[h]) = Rev0(mem[h])
    BY <1>2 DEF Open, policy
  <2>2. Admitted' = Admitted
    BY <1>5 DEF Admitted, GuestWork
  <2>3. QED BY <2>1, <2>2, AccessStutters
<1>7. QED BY <1>2, <1>4, <1>5, <1>6, GuestStep DEF Good

LEMMA BeginStep == ASSUME SharingAssumption, IInv, Begin PROVE Good
<1>1. guest \in Request /\ guest # None /\ guest.at = "queued"
  BY DEF Begin, IInv, TypeOK
<1>2. UNCHANGED <<policy, world, bridge, pass, sweep, made, denied, pending>>
  BY DEF Begin
<1>3. GuestWork = {}
  BY <1>1 DEF IInv, WorkOK, GuestWork
<1>4. Open' = Open /\ \A h \in Grants : Rev0(mem'[h]) = Rev0(mem[h])
  BY <1>2 DEF Open, policy
<1>5. CASE guest' = None /\ inflight' = inflight
  <2>1. TypeOK'
    BY <1>2, <1>5 DEF IInv, TypeOK, policy, world
  <2>2. WorkOK' /\ GuestWork' = {}
    BY <1>3, <1>5 DEF WorkOK, GuestWork
  <2>3. Admitted' = Admitted
    BY <1>3, <2>2 DEF Admitted, GuestWork
  <2>4. QED BY <1>2, <1>4, <2>1, <2>2, <2>3, GuestStep, AccessStutters DEF Good
<1>6. CASE /\ Authorized(guest) /\ guest' = [guest EXCEPT !.at = "running"]
           /\ inflight' = inflight \cup {Token(guest.grant, guest.rev, "guest")}
  <2>1. PICK g \in Grants : g = guest.grant
    BY <1>1 DEF Request
  <2>2. mem[g] # None /\ mem[g].state = "active" /\ guest.rev = mem[g].rev /\ mem[g].rev \in Nat
    BY <1>6, <2>1, GrantOf, GrantParts DEF Authorized, IInv
  <2>3. /\ guest' \in Request /\ guest'.at = "running" /\ guest'.grant = g /\ guest'.rev = mem[g].rev
        /\ guest' # None
    <3>1. guest' \in Request /\ guest'.at = "running" /\ guest'.grant = g /\ guest'.rev = mem[g].rev
      BY <1>1, <1>6, <2>1, <2>2 DEF Request
    <3>2. QED BY <3>1, SharingAssumption DEF SharingAssumption
  <2>4. GuestWork' = {Token(g, mem[g].rev, "guest")}
    BY <1>3, <1>6, <2>1, <2>2 DEF GuestWork, Token
  <2>5. TypeOK'
    <3>1. inflight' \subseteq [grant : Grants, revision : Nat, by : {"bridge", "sweep", "guest"}]
      BY <1>6, <2>1, <2>2 DEF IInv, TypeOK, Token
    <3>2. QED BY <1>2, <2>3, <3>1 DEF IInv, TypeOK, policy, world
  <2>6. WorkOK'
    <3>1. ASSUME NEW w \in inflight', w.by = "guest"
          PROVE  w.grant = g /\ w.revision = mem[g].rev
      BY <2>4, <3>1 DEF GuestWork, Token
    <3>2. mem' = mem
      BY <1>2 DEF policy
    <3>3. QED BY <2>2, <2>3, <3>1, <3>2 DEF WorkOK
  <2>7. Access!Begin(g)
    <3>1. Admitted = {} /\ Admitted' = {[grant |-> g, revision |-> mem[g].rev]}
      <4> DEFINE t == [grant |-> g, revision |-> mem[g].rev, by |-> "guest"]
      <4>1. /\ Admitted = {[grant |-> w.grant, revision |-> w.revision] : w \in GuestWork}
            /\ Admitted' = {[grant |-> w.grant, revision |-> w.revision] : w \in GuestWork'}
        BY DEF Admitted, GuestWork
      <4>2. GuestWork' = {t} /\ t.grant = g /\ t.revision = mem[g].rev
        BY <2>4 DEF Token
      <4> HIDE DEF t
      <4>3. QED BY <1>3, <4>1, <4>2
    <3>2. g \in Open
      BY <2>2 DEF Open
    <3>3. mem' = mem
      BY <1>2 DEF policy
    <3>4. QED BY <1>4, <2>2, <3>1, <3>2, <3>3 DEF Access!Begin
  <2>8. QED BY <1>2, <2>5, <2>6, <2>7, GuestStep DEF Good, Access!Next
<1>7. QED BY <1>5, <1>6 DEF Begin

LEMMA EndStep == ASSUME SharingAssumption, IInv, End PROVE Good
<1>1. /\ UNCHANGED <<policy, world, bridge, pass, sweep, made, denied, pending>>
      /\ guest' = None /\ inflight' = {w \in inflight : w.by # "guest"}
  BY DEF End, Release
<1>2. TypeOK'
  BY <1>1 DEF IInv, TypeOK, policy, world
<1>3. WorkOK' /\ Admitted' = {}
  BY <1>1 DEF WorkOK, Admitted
<1>4. mem' = mem /\ Open' = Open /\ \A h \in Grants : Rev0(mem'[h]) = Rev0(mem[h])
  BY <1>1 DEF Open, policy
<1>5. CASE Admitted = {}
  BY <1>1, <1>2, <1>3, <1>4, <1>5, GuestStep, AccessStutters DEF Good
<1>6. CASE Admitted # {}
  <2>1. PICK a \in Admitted : TRUE
    BY <1>6
  <2>2. \A b \in Admitted : b = [grant |-> guest.grant, revision |-> guest.rev]
    BY DEF Admitted, IInv, WorkOK
  <2>3. Admitted' = Admitted \ {a}
    BY <1>3, <2>1, <2>2
  <2>4. Access!End(a)
    BY <1>4, <2>3 DEF Access!End
  <2>5. QED BY <1>1, <1>2, <1>3, <2>1, <2>4, GuestStep DEF Good, Access!Next
<1>7. QED BY <1>5, <1>6

---------------------------------------------------------------------------
(* Steps of several grants.                                                *)

(* The grants of C have a new revision; those of D were closed by a save   *)
(* that failed.                                                            *)
Several(C, D) ==
  /\ C \subseteq Grants /\ D \subseteq Grants \ C /\ (C = {} => D = {})
  /\ mem' \in Policy /\ disk' \in {disk, mem'}
  /\ inflight' = {w \in inflight : w.grant \notin C}
  /\ UNCHANGED <<guest, denied, made, sweep>>
  /\ \A h \in C : /\ mem[h] # None /\ mem'[h] # None /\ mem'[h].rev = mem[h].rev + 1
                  /\ mem'[h].mirror = mem[h].mirror /\ (Denied(mem[h]) => Denied(mem'[h]))
  /\ \A h \in D : /\ mem[h] # None /\ mem'[h] # None /\ mem'[h].rev = mem[h].rev
                  /\ mem'[h].mirror = mem[h].mirror /\ ~Denied(mem[h]) /\ mem'[h].state = "suspended"
  /\ \A h \in Grants \ (C \cup D) : mem'[h] = mem[h]

LEMMA SeveralStep ==
  ASSUME SharingAssumption, IInv, NEW C, NEW D, Several(C, D), TypeOK',
         bridge' = bridge, pass' = None \/ (pass' = pass /\ pending' = pending) \/ PassOK',
         (\E h \in Grants : Making(h)') => sweep = Idle
  PROVE  Good
<1>1. \A h \in Grants : mem[h] # None => mem[h].rev \in Nat
  BY GrantOf, GrantParts DEF IInv
<1>2. \A h \in Grants :
        /\ mem[h] # None => mem'[h] # None /\ mem[h].rev <= mem'[h].rev
        /\ mem'[h] # None => mem[h] # None /\ mem'[h].mirror = mem[h].mirror
  BY <1>1 DEF Several
<1>3. JobOK'
  <2>1. bridge'.at = "activate" => bridge'.topic \in Topics
    BY DEF IInv, JobOK, Idle
  <2>2. sweep' = sweep
    BY DEF Several
  <2>3. QED BY <1>2, <2>1, <2>2, JobKept
<1>4. DenialOK'
  <2>1. \A h \in Grants : denied[h] # 0 => Denied(mem[h])
    BY DEF IInv, DenialOK
  <2>2. \A h \in Grants : denied'[h] # 0 => Denied(mem'[h]) /\ denied'[h] = denied[h]
    BY <2>1 DEF Several
  <2>3. mem' \in Policy /\ disk' \in {disk, mem'} /\ denied' \in [Grants -> Nat]
    BY DEF Several, IInv, TypeOK
  <2>4. QED BY <1>2, <2>2, <2>3, DenialKept DEF IInv
<1>5. TopicOK'
  <2>1. SUFFICES ASSUME NEW h \in Grants PROVE TopicsOf(h)'
    BY DEF TopicOK
  <2>2. TopicsOf(h) /\ made'[h] = made[h] /\ disk'[h] \in {disk[h], mem'[h]} /\ sweep' = sweep
    BY DEF IInv, TopicOK, Several
  <2>3. Making(h)' => Making(h) /\ sweep = Idle
    BY DEF Making, Idle
  <2>4. (NoMirror(mem'[h]) => NoMirror(mem[h])) /\ (Intends(mem[h]) => Intends(mem'[h]))
    BY <1>2 DEF NoMirror, Intends
  <2>5. NoMirror(mem'[h]) \/ NoMirror(disk'[h]) => NoMirror(mem[h]) \/ NoMirror(disk[h])
    BY <2>2, <2>4
  <2>6. QED BY <2>2, <2>3, <2>4, <2>5, TopicKept
<1>6. WorkOK'
  <2>1. ASSUME NEW w \in inflight', w.by = "guest"
        PROVE  /\ w \in inflight
               /\ mem'[w.grant] # None /\ mem'[w.grant].rev = mem[w.grant].rev
               /\ mem'[w.grant].state \in {mem[w.grant].state, "suspended"}
    <3>1. w \in inflight /\ w.grant \in Grants \ C /\ mem[w.grant] # None
      BY <2>1 DEF Several, IInv, TypeOK, WorkOK
    <3>2. QED BY <3>1 DEF Several
  <2>2. guest' = guest
    BY DEF Several
  <2>3. QED BY <2>1, <2>2, WorkKept DEF IInv
<1>7. [Access!Next]_(Access!vars)
  <2>1. \A h \in Grants \ C : Rev0(mem'[h]) = Rev0(mem[h])
    BY DEF Several, Rev0
  <2>2. \A h \in Grants \ C : h \in Open' <=> h \in Open /\ h \notin D
    <3>1. ASSUME NEW h \in Grants \ C PROVE h \in Open' <=> h \in Open /\ h \notin D
      <4>1. CASE h \in D
        BY <3>1, <4>1 DEF Several, Open
      <4>2. CASE h \notin D
        <5>1. mem'[h] = mem[h]
          BY <3>1, <4>2 DEF Several
        <5>2. QED BY <3>1, <4>2, <5>1 DEF Open
      <4>3. QED BY <4>1, <4>2
    <3>2. QED BY <3>1
  <2>3. Admitted' = {w \in Admitted : w.grant \notin C}
    <3>1. inflight' = {w \in inflight : w.grant \notin C}
      BY DEF Several
    <3>2. \A a : a \in Admitted' => a \in Admitted /\ a.grant \notin C
      BY <3>1 DEF Admitted
    <3>3. \A a : a \in Admitted /\ a.grant \notin C => a \in Admitted'
      BY <3>1 DEF Admitted
    <3>4. QED BY <3>2, <3>3
  <2>4. CASE C = {}
    <3>1. D = {}
      BY <2>4 DEF Several
    <3>2. Open' = Open
      BY <2>2, <2>4, <3>1 DEF Open
    <3>3. Admitted' = Admitted
      BY <2>3, <2>4
    <3>4. QED BY <2>1, <2>4, <3>2, <3>3, AccessStutters
  <2>5. CASE C # {}
    <3>1. \A h \in C : Rev0(mem[h]) < Rev0(mem'[h])
      BY <1>1 DEF Several, Rev0
    <3>2. C \in SUBSET Grants /\ D \in SUBSET Grants /\ D \subseteq Grants \ C
      BY DEF Several
    <3>3. QED BY <2>1, <2>2, <2>3, <2>5, <3>1, <3>2, AccessChanges
  <2>6. QED BY <2>4, <2>5
<1>8. QED BY <1>3, <1>4, <1>5, <1>6, <1>7 DEF Good, IInv

LEMMA ExpireStep == ASSUME SharingAssumption, IInv, Expire PROVE Good
<1> DEFINE C == {g \in Grants : mem[g] # None /\ mem[g].due = "past" /\ mem[g].state \in {"active", "suspended", "pending"}}
           next == [g \in Grants |-> IF g \in C THEN To(mem[g], "expired", mem[g].reason) ELSE mem[g]]
<1>1. ASSUME NEW g \in C
      PROVE  LET r == To(mem[g], "expired", mem[g].reason)
             IN /\ r \in Grant /\ r # None /\ r.rev = mem[g].rev + 1 /\ r.mirror = mem[g].mirror
                /\ Denied(mem[g]) => Denied(r)
  <2> DEFINE r == To(mem[g], "expired", mem[g].reason)
  <2>1. mem[g] \in Grant /\ mem[g].reason \in Reasons /\ "expired" \in States
    BY GrantOf, GrantParts DEF IInv, States
  <2>2. r \in Grant /\ r.rev = mem[g].rev + 1 /\ r.mirror = mem[g].mirror /\ r.state = "expired" /\ r.reason = mem[g].reason
    BY <2>1, MovedGrant
  <2> HIDE DEF r
  <2>3. r # None
    BY <2>2, GrantParts
  <2>4. Denied(mem[g]) => Denied(r)
    BY <2>2, <2>3 DEF Denied
  <2>5. QED BY <2>2, <2>3, <2>4 DEF r
<1>2. /\ sweep = Idle /\ UNCHANGED <<world, bridge, pass, sweep, guest, made, denied, pending>>
      /\ inflight' = {w \in inflight : w.grant \notin C} /\ Save(next)
  BY DEF Expire
<1> HIDE DEF C
<1>3. C \subseteq Grants /\ \A g \in C : mem[g] # None
  BY DEF C
<1>4. next \in Policy
  BY <1>1, <1>3 DEF IInv, TypeOK, Policy
<1>5. mem' = next /\ disk' \in {disk, mem'} /\ mem' \in Policy /\ disk' \in Policy /\ spent' \in Spent
  BY <1>2, <1>4, SaveTypes DEF IInv, Spent
<1>6. TypeOK'
  BY <1>2, <1>5 DEF IInv, TypeOK, Spent, world
<1>7. Several(C, {})
  <2>1. \A h \in C : mem'[h] = To(mem[h], "expired", mem[h].reason)
    BY <1>3, <1>5
  <2>2. \A h \in Grants \ (C \cup {}) : mem'[h] = mem[h]
    BY <1>5
  <2>3. QED BY <1>1, <1>2, <1>3, <1>5, <2>1, <2>2 DEF Several
<1>8. QED BY <1>2, <1>6, <1>7, SeveralStep

---------------------------------------------------------------------------
(* The private topics after the agent's life.                              *)

LEMMA FlushStep ==
  ASSUME SharingAssumption, IInv, NEW k \in Keys, NEW pend \in [Keys -> Followed \cup {None}], pend[k] \in Followed,
         bridge = Idle, FlushEvent(k, pend), events' \in Seq(Notice)
  PROVE  Good
<1> DEFINE next == [g \in Grants |-> IF Touched(g) THEN After(mem[g], pend[k].kind, k) ELSE mem[g]]
           C == {g \in Grants : next[g] # mem[g]}
           closed == [g \in Grants |-> IF Touched(g) THEN RolledBack(next[g]) ELSE mem[g]]
<1>1. ASSUME NEW g \in Grants, Touched(g)
      PROVE  /\ mem[g] \in Grant /\ mem[g].state \in {"active", "suspended"} /\ ~Denied(mem[g])
             /\ next[g] \in Grant /\ next[g].mirror = mem[g].mirror
             /\ g \in C => next[g].rev = mem[g].rev + 1
             /\ closed[g] \in Grant /\ closed[g].mirror = mem[g].mirror
             /\ closed[g].rev = next[g].rev /\ closed[g].state = "suspended"
  <2>1. mem[g] \in Grant /\ mem[g].state \in {"active", "suspended"} /\ ~Denied(mem[g])
    BY <1>1, GrantOf DEF IInv, Touched, Denied
  <2>2. pend[k].kind \in {"here", "gone"}
    BY DEF Followed
  <2>3. /\ After(mem[g], pend[k].kind, k) \in Grant /\ After(mem[g], pend[k].kind, k).mirror = mem[g].mirror
        /\ After(mem[g], pend[k].kind, k) # mem[g] => After(mem[g], pend[k].kind, k).rev = mem[g].rev + 1
    BY <2>1, <2>2, AfterGrant
  <2>4. next[g] = After(mem[g], pend[k].kind, k)
    BY <1>1
  <2> HIDE DEF next
  <2>5. /\ RolledBack(next[g]) \in Grant /\ RolledBack(next[g]).rev = next[g].rev
        /\ RolledBack(next[g]).state = "suspended" /\ RolledBack(next[g]).mirror = next[g].mirror
    BY <2>3, <2>4, EditedGrant
  <2>6. closed[g] = RolledBack(next[g])
    BY <1>1
  <2>7. QED BY <2>1, <2>3, <2>4, <2>5, <2>6
<1>2. \A g \in Grants : ~Touched(g) => next[g] = mem[g] /\ closed[g] = mem[g] /\ g \notin C
  OBVIOUS
<1>3. /\ inflight' = {w \in inflight : w.grant \notin C}
      /\ \/ C = {} /\ UNCHANGED policy /\ CatchesUp(k, pend)
         \/ C # {} /\ Saved(next) /\ CatchesUp(k, pend)
         \/ C # {} /\ Unsaved(next, closed) /\ pass' = None /\ pending' = pend
      /\ UNCHANGED <<agent, topics, bridge, sweep, guest, made, denied>>
  BY DEF FlushEvent
<1>4. next \in Policy /\ closed \in Policy
  BY <1>1, <1>2, GrantOf DEF IInv, Policy
<1>5. C \subseteq Grants
  OBVIOUS
<1> HIDE DEF C, next, closed
<1>6. mem' \in Policy /\ disk' \in Policy /\ disk' \in {disk, mem'} /\ spent' \in Spent
  <2>1. CASE UNCHANGED policy
    BY <2>1 DEF policy, IInv, TypeOK, Spent
  <2>2. CASE Saved(next) \/ Unsaved(next, closed)
    BY <1>4, <2>2, SavedOrNot DEF IInv, Spent
  <2>3. QED BY <1>3, <2>1, <2>2
<1>7. /\ pending' \in [Keys -> Followed \cup {None}] /\ pass' \in Pass \cup {None} /\ PassOK'
  <2>1. CASE pass' = None /\ pending' = pend
    BY <2>1 DEF PassOK
  <2>2. CASE pass' = None /\ pending' = [pend EXCEPT ![k] = None]
    BY <2>2 DEF PassOK
  <2>3. CASE pass' = Passing(k) /\ pending' = pend
    <3>1. ASSUME NEW g \in Grants
          PROVE  /\ Shown(mem'[g]) \in ShownGrant \cup {None}
                 /\ Shown(mem'[g]) # None => mem'[g] # None
      <4>1. mem'[g] = None \/ mem'[g] \in Grant
        BY <1>6 DEF Policy
      <4>2. CASE mem'[g] = None
        BY <4>2 DEF Shown, Concerned
      <4>3. CASE mem'[g] \in Grant
        BY <4>3, GrantParts DEF Shown, ShownGrant
      <4>4. QED BY <4>1, <4>2, <4>3
    <3>2. pass'.key = k /\ pass'.shown = [g \in Grants |-> Shown(mem'[g])] /\ pass' \in Pass
      BY <2>3, <3>1 DEF Passing, Pass
    <3>3. QED BY <2>3, <3>1, <3>2 DEF PassOK
  <2>4. QED BY <1>3, <2>1, <2>2, <2>3 DEF CatchesUp
<1>8. TypeOK'
  BY <1>3, <1>6, <1>7 DEF IInv, TypeOK, Spent
<1>9. ASSUME mem' = next
      PROVE  Several(C, {})
  <2>1. ASSUME NEW h \in C
        PROVE  /\ mem[h] # None /\ mem'[h] # None /\ mem'[h].rev = mem[h].rev + 1
               /\ mem'[h].mirror = mem[h].mirror /\ (Denied(mem[h]) => Denied(mem'[h]))
    BY <1>1, <1>2, <1>5, <1>9, <2>1, GrantParts
  <2>2. \A h \in Grants \ (C \cup {}) : mem'[h] = mem[h]
    BY <1>9 DEF C
  <2>3. QED BY <1>3, <1>5, <1>6, <2>1, <2>2 DEF Several
<1>10. ASSUME mem' = closed, C # {}
       PROVE  Several(C, {g \in Grants \ C : Touched(g)})
  <2> DEFINE D == {g \in Grants \ C : Touched(g)}
  <2>1. ASSUME NEW h \in C
        PROVE  /\ mem[h] # None /\ mem'[h] # None /\ mem'[h].rev = mem[h].rev + 1
               /\ mem'[h].mirror = mem[h].mirror /\ (Denied(mem[h]) => Denied(mem'[h]))
    BY <1>1, <1>2, <1>5, <1>10, <2>1, GrantParts
  <2>2. ASSUME NEW h \in D
        PROVE  /\ mem[h] # None /\ mem'[h] # None /\ mem'[h].rev = mem[h].rev
               /\ mem'[h].mirror = mem[h].mirror /\ ~Denied(mem[h]) /\ mem'[h].state = "suspended"
    <3>1. next[h] = mem[h]
      BY <2>2 DEF C
    <3>2. QED BY <1>1, <1>10, <2>2, <3>1, GrantParts
  <2>3. \A h \in Grants \ (C \cup D) : mem'[h] = mem[h]
    BY <1>2, <1>10
  <2>4. D \subseteq Grants \ C
    OBVIOUS
  <2> HIDE DEF D
  <2>5. Several(C, D)
    BY <1>3, <1>5, <1>6, <1>10, <2>1, <2>2, <2>3, <2>4 DEF Several
  <2>6. QED BY <2>5 DEF D
<1>11. bridge' = bridge /\ ((\E h \in Grants : Making(h)') => sweep = Idle)
  BY <1>3 DEF Making, Idle
<1>12. CASE mem' = closed /\ C # {}
  BY <1>7, <1>8, <1>10, <1>11, <1>12, SeveralStep
<1>13. CASE mem' = next
  BY <1>7, <1>8, <1>9, <1>11, <1>13, SeveralStep
<1>14. CASE C = {} /\ mem' = mem
  <2>1. next = mem
    BY <1>14 DEF C, next, IInv, TypeOK, Policy
  <2>2. QED BY <1>13, <1>14, <2>1
<1>15. QED BY <1>3, <1>12, <1>13, <1>14 DEF policy, Saved, Unsaved

LEMMA ObserveStep == ASSUME SharingAssumption, IInv, Observe PROVE Good
<1>1. /\ bridge = Idle /\ events \in Seq(Notice) /\ events # <<>> /\ events' = Tail(events)
      /\ FlushEvent(Head(events).key, [pending EXCEPT ![Head(events).key] = Follows(Head(events).kind)])
  BY DEF Observe, Free, IInv, TypeOK
<1>2. PICK n \in Notice : n = Head(events)
  BY <1>1
<1>3. n.key \in Keys /\ n.kind \in {"here", "gone"}
  BY DEF Notice
<1>4. PICK k \in Keys : k = n.key
  BY <1>3
<1>4a. Follows(n.kind) \in Followed
  BY <1>3 DEF Follows, Followed
<1>5. PICK pend \in [Keys -> Followed \cup {None}] : pend = [pending EXCEPT ![k] = Follows(n.kind)]
  BY <1>4a DEF IInv, TypeOK
<1>6. pend[k] \in Followed
  BY <1>4a, <1>5 DEF IInv, TypeOK
<1>7. FlushEvent(k, pend)
  BY <1>1, <1>2, <1>4, <1>5
<1>8. events' \in Seq(Notice)
  BY <1>1
<1>9. QED BY <1>1, <1>6, <1>7, <1>8, FlushStep

LEMMA FlushPendingStep == ASSUME SharingAssumption, IInv, NEW k \in Keys, Flush(k) PROVE Good
<1>1. PICK pend \in [Keys -> Followed \cup {None}] : pend = pending
  BY DEF IInv, TypeOK
<1>2. bridge = Idle /\ pend[k] \in Followed /\ FlushEvent(k, pend) /\ events' \in Seq(Notice)
  BY <1>1 DEF Flush, Free, IInv, TypeOK
<1>3. QED BY <1>2, FlushStep

---------------------------------------------------------------------------
(* Time passes, and the process starts again.                              *)

(* A record that only grew older, or belongs to another process now.       *)
Like(r, s) ==
  /\ r = None <=> s = None
  /\ r # None => r.rev = s.rev /\ r.state = s.state /\ r.reason = s.reason /\ r.mirror = s.mirror

LEMMA LikeParts ==
  ASSUME NEW r, NEW s, Like(r, s)
  PROVE  /\ NoMirror(r) <=> NoMirror(s)
         /\ Intends(r) <=> Intends(s)
         /\ Denied(r) <=> Denied(s)
         /\ Rev0(r) = Rev0(s)
BY DEF Like, NoMirror, Intends, Denied, Rev0

LEMMA AgesLike ==
  ASSUME NEW r \in Grant, NEW s \in {r, Due(r), Aged(r), Foreign(r)}
  PROVE  s \in Grant /\ Like(s, r)
<1>1. r # None
  BY GrantParts
<1>2. CASE s = r
  BY <1>2 DEF Like
<1>3. CASE s # r
  <2>1. s \in Grant /\ s.rev = r.rev /\ s.state = r.state /\ s.reason = r.reason /\ s.mirror = r.mirror
    BY <1>3, AgingGrant
  <2>2. s # None
    BY <2>1, GrantParts
  <2>3. QED BY <1>1, <2>1, <2>2 DEF Like
<1>4. QED BY <1>2, <1>3

LEMMA AgingStep ==
  ASSUME SharingAssumption, IInv, NEW g \in Grants, NEW r \in Grant, NEW s \in Grant \cup {None},
         mem[g] # None, Like(r, mem[g]), Like(s, disk[g]),
         mem' = With(g, r), disk' = [disk EXCEPT ![g] = s], spent' \in Spent,
         UNCHANGED <<world, inflight, bridge, pass, sweep, guest, made, denied, pending>>
  PROVE  Good
<1>1. /\ mem' \in Policy /\ disk' \in Policy
      /\ \A h \in Grants : Like(mem'[h], mem[h]) /\ Like(disk'[h], disk[h])
  BY DEF IInv, TypeOK, Policy, With, Like
<1>2. TypeOK'
  BY <1>1 DEF IInv, TypeOK, Spent, world
<1>3. JobOK'
  BY <1>1, JobTypes DEF IInv, JobOK, PassOK, Like
<1>4. DenialOK'
  <2>1. SUFFICES ASSUME NEW h \in Grants
        PROVE  /\ disk'[h] # None => mem'[h] # None /\ disk'[h].rev <= mem'[h].rev
               /\ denied'[h] # 0 => Denied(mem'[h])
               /\ denied'[h] # 0 /\ disk'[h] # None => disk'[h].rev < denied'[h] \/ Denied(disk'[h])
    BY DEF DenialOK, Denied
  <2>2. /\ disk[h] # None => mem[h] # None /\ disk[h].rev <= mem[h].rev
        /\ denied[h] # 0 => Denied(mem[h])
        /\ denied[h] # 0 /\ disk[h] # None => disk[h].rev < denied[h] \/ Denied(disk[h])
    BY DEF IInv, DenialOK
  <2>3. Like(mem'[h], mem[h]) /\ Like(disk'[h], disk[h])
    BY <1>1
  <2>4. (Denied(mem'[h]) <=> Denied(mem[h])) /\ (Denied(disk'[h]) <=> Denied(disk[h]))
    BY <2>3, LikeParts
  <2>5. QED BY <2>2, <2>3, <2>4 DEF Like
<1>5. TopicOK'
  <2>1. SUFFICES ASSUME NEW h \in Grants PROVE TopicsOf(h)'
    BY DEF TopicOK
  <2>2. TopicsOf(h)
    BY DEF IInv, TopicOK
  <2>3. Like(mem'[h], mem[h]) /\ Like(disk'[h], disk[h])
    BY <1>1
  <2>4. /\ NoMirror(mem'[h]) <=> NoMirror(mem[h])
        /\ NoMirror(disk'[h]) <=> NoMirror(disk[h])
        /\ Intends(mem'[h]) <=> Intends(mem[h])
        /\ Intends(disk'[h]) <=> Intends(disk[h])
    BY <2>3, LikeParts
  <2>5. Intends(mem[h]) => mem'[h].state = mem[h].state
    BY <2>3 DEF Intends, Like
  <2>6. QED BY <2>2, <2>4, <2>5 DEF TopicsOf, Making, NoMirror, Intends
<1>6. WorkOK'
  <2>1. ASSUME NEW w \in inflight', w.by = "guest"
        PROVE  /\ w \in inflight /\ mem'[w.grant] # None /\ mem'[w.grant].rev = mem[w.grant].rev
               /\ mem'[w.grant].state \in {mem[w.grant].state, "suspended"}
    <3>1. w \in inflight /\ w.grant \in Grants /\ mem[w.grant] # None
      BY <2>1 DEF IInv, TypeOK, WorkOK
    <3>2. QED BY <1>1, <3>1 DEF Like
  <2>2. QED BY <2>1, WorkKept DEF IInv
<1>7. [Access!Next]_(Access!vars)
  <2>1. \A h \in Grants : Rev0(mem'[h]) = Rev0(mem[h])
    BY <1>1, LikeParts
  <2>2. Open' = Open
    BY <1>1 DEF Open, Like
  <2>3. Admitted' = Admitted
    BY DEF Admitted
  <2>4. QED BY <2>1, <2>2, <2>3, AccessStutters
<1>8. QED BY <1>2, <1>3, <1>4, <1>5, <1>6, <1>7 DEF Good, IInv

LEMMA PassesStep ==
  ASSUME SharingAssumption, IInv, NEW g \in Grants, Lapses(g) \/ Ages(g)
  PROVE  Good
<1>1. /\ mem[g] # None /\ mem[g] \in Grant /\ spent' \in Spent
      /\ UNCHANGED <<world, inflight, bridge, pass, sweep, guest, made, denied, pending>>
  BY GrantOf, SpentMore DEF Lapses, Ages, Passes, IInv
<1>2. disk \in [Grants -> Grant \cup {None}]
  BY DEF IInv, TypeOK, Policy
<1>3. Like(None, None) /\ \A r \in Grant : Like(r, r)
  BY DEF Like
<1>4. disk[g] # None => disk[g] \in Grant
  BY <1>2
<1>5. CASE Lapses(g)
  <2>1. Due(mem[g]) \in Grant /\ Like(Due(mem[g]), mem[g])
    BY <1>1, AgesLike
  <2>2. disk[g] # None => Due(disk[g]) \in Grant /\ Like(Due(disk[g]), disk[g])
    BY <1>4, AgesLike
  <2>3. mem' = With(g, Due(mem[g])) /\ (disk' = disk \/ (disk[g] # None /\ disk' = [disk EXCEPT ![g] = Due(disk[g])]))
    BY <1>5 DEF Lapses, Passes
  <2>4. CASE disk' = disk
    <3>1. disk' = [disk EXCEPT ![g] = disk[g]] /\ Like(disk[g], disk[g]) /\ disk[g] \in Grant \cup {None}
      BY <1>2, <1>3, <2>4
    <3>2. QED BY <1>1, <2>1, <2>3, <3>1, AgingStep
  <2>5. CASE disk[g] # None /\ disk' = [disk EXCEPT ![g] = Due(disk[g])]
    BY <1>1, <2>1, <2>2, <2>3, <2>5, AgingStep
  <2>6. QED BY <2>3, <2>4, <2>5
<1>6. CASE Ages(g)
  <2>1. Aged(mem[g]) \in Grant /\ Like(Aged(mem[g]), mem[g])
    BY <1>1, AgesLike
  <2>2. disk[g] # None => Aged(disk[g]) \in Grant /\ Like(Aged(disk[g]), disk[g])
    BY <1>4, AgesLike
  <2>3. mem' = With(g, Aged(mem[g])) /\ (disk' = disk \/ (disk[g] # None /\ disk' = [disk EXCEPT ![g] = Aged(disk[g])]))
    BY <1>6 DEF Ages, Passes
  <2>4. CASE disk' = disk
    <3>1. disk' = [disk EXCEPT ![g] = disk[g]] /\ Like(disk[g], disk[g]) /\ disk[g] \in Grant \cup {None}
      BY <1>2, <1>3, <2>4
    <3>2. QED BY <1>1, <2>1, <2>3, <3>1, AgingStep
  <2>5. CASE disk[g] # None /\ disk' = [disk EXCEPT ![g] = Aged(disk[g])]
    BY <1>1, <2>1, <2>2, <2>3, <2>5, AgingStep
  <2>6. QED BY <2>3, <2>4, <2>5
<1>7. QED BY <1>5, <1>6

LEMMA CrashStep == ASSUME SharingAssumption, IInv, Crash PROVE Good
<1>1. /\ mem' = disk' /\ inflight' = {} /\ bridge' = Idle /\ pass' = None /\ sweep' = Idle /\ guest' = None
      /\ pending' = [k \in Keys |-> None] /\ UNCHANGED <<agent, topics, made>> /\ spent' \in Spent
      /\ denied' = [g \in Grants |-> IF disk[g] # None /\ disk[g].rev >= denied[g] THEN denied[g] ELSE 0]
  BY SpentMore DEF Crash, IInv
<1>2. ASSUME NEW g \in Grants
      PROVE  disk'[g] \in Grant \cup {None} /\ Like(disk'[g], disk[g])
  <2>1. disk'[g] = Foreign(disk[g])
    BY DEF Crash
  <2>2. CASE disk[g] = None
    BY <2>1, <2>2 DEF Foreign, Like
  <2>3. CASE disk[g] # None
    <3>1. disk[g] \in Grant
      BY <2>3, GrantOf DEF IInv
    <3>2. QED BY <2>1, <3>1, AgesLike
  <2>4. QED BY <2>2, <2>3
<1>3. disk' \in Policy /\ mem' \in Policy
  <2>1. disk' = [g \in Grants |-> disk'[g]]
    BY DEF Crash
  <2>2. QED BY <1>1, <1>2, <2>1 DEF Policy
<1>4. TypeOK'
  <2>1. events' \in Seq(Notice)
    <3>1. agent # None => [kind |-> "here", key |-> agent] \in Notice
      BY DEF IInv, TypeOK, Notice
    <3>2. events' = <<>> \/ (agent # None /\ events' = <<[kind |-> "here", key |-> agent]>>)
      BY DEF Crash
    <3>3. CASE events' = <<>>
      BY <3>3
    <3>4. CASE \E n \in Notice : events' = <<n>>
      BY <3>4
    <3>5. QED BY <3>1, <3>2, <3>3, <3>4
  <2>2. denied' \in [Grants -> Nat]
    BY <1>1 DEF IInv, TypeOK
  <2>3. QED BY <1>1, <1>3, <2>1, <2>2 DEF IInv, TypeOK, Spent
<1>5. JobOK'
  BY <1>1 DEF JobOK, PassOK, Idle
<1>6. DenialOK'
  <2>1. SUFFICES ASSUME NEW g \in Grants
        PROVE  /\ disk'[g] # None => mem'[g] # None /\ disk'[g].rev <= mem'[g].rev
               /\ denied'[g] # 0 => Denied(mem'[g])
               /\ denied'[g] # 0 /\ disk'[g] # None => disk'[g].rev < denied'[g] \/ Denied(disk'[g])
    BY DEF DenialOK, Denied
  <2>2. denied'[g] # 0 => Denied(disk[g])
    <3>1. denied[g] # 0 /\ disk[g] # None => disk[g].rev < denied[g] \/ Denied(disk[g])
      BY DEF IInv, DenialOK
    <3>2. denied[g] \in Nat /\ (disk[g] # None => disk[g].rev \in Nat)
      BY GrantOf, GrantParts DEF IInv, TypeOK
    <3>3. QED BY <1>1, <3>1, <3>2
  <2>3. Denied(disk'[g]) <=> Denied(disk[g])
    BY <1>2, LikeParts
  <2>4. disk'[g] # None => disk'[g].rev \in Nat
    BY <1>2, GrantParts
  <2>5. QED BY <1>1, <2>2, <2>3, <2>4
<1>7. TopicOK'
  <2>1. SUFFICES ASSUME NEW g \in Grants PROVE TopicsOf(g)'
    BY DEF TopicOK
  <2>2. made'[g] <= 1 /\ made'[g] = made[g] /\ ~Making(g)'
    BY <1>1 DEF IInv, TopicOK, TopicsOf, Making, Idle
  <2>3. NoMirror(disk'[g]) <=> NoMirror(disk[g])
    BY <1>2, LikeParts
  <2>4. NoMirror(disk[g]) => made[g] = 0
    BY DEF IInv, TopicOK, TopicsOf
  <2>5. QED BY <1>1, <2>2, <2>3, <2>4 DEF TopicsOf, NoMirror
<1>8. WorkOK'
  BY <1>1 DEF WorkOK
<1>9. Access!Restart
  <2>1. Admitted' = {} /\ Open' \in SUBSET Grants
    BY <1>1 DEF Admitted, Open
  <2>2. \A g \in Grants : Rev0(mem'[g]) \in Nat
    BY <1>1, <1>2, GrantParts DEF Rev0
  <2>3. [g \in Grants |-> IF mem'[g] = None THEN 0 ELSE mem'[g].rev] \in [Grants -> Nat]
    BY <2>2 DEF Rev0
  <2>4. QED BY <2>1, <2>3 DEF Access!Restart
<1>10. QED BY <1>4, <1>5, <1>6, <1>7, <1>8, <1>9 DEF Good, IInv, Access!Next

---------------------------------------------------------------------------
(* All steps together.                                                     *)

LEMMA InitGood == ASSUME SharingAssumption, Init PROVE IInv /\ Access!Init
<1>1. TypeOK
  BY InitTypes
<1>2. /\ mem = [g \in Grants |-> None] /\ disk = mem /\ inflight = {} /\ bridge = Idle /\ pass = None /\ sweep = Idle
      /\ made = [g \in Grants |-> 0] /\ denied = [g \in Grants |-> 0]
  BY DEF Init
<1>3. JobOK
  BY <1>2 DEF JobOK, PassOK, Idle
<1>4. DenialOK
  BY <1>2 DEF DenialOK
<1>5. TopicOK
  BY <1>2 DEF TopicOK, TopicsOf, Making, NoMirror, Idle
<1>6. WorkOK
  BY <1>2 DEF WorkOK
<1>7. Access!Init
  BY <1>2 DEF Access!Init, Open, Admitted
<1>8. QED BY <1>1, <1>3, <1>4, <1>5, <1>6, <1>7 DEF IInv

LEMMA NextGood == ASSUME SharingAssumption, IInv, [Next]_vars PROVE Good
<1>1. CASE UNCHANGED vars
  <2>1. IInv'
    BY <1>1 DEF vars, policy, world, IInv, TypeOK, JobOK, PassOK, DenialOK, Denied, TopicOK, TopicsOf, NoMirror, Intends,
                Making, WorkOK
  <2>2. [Access!Next]_(Access!vars)
    BY <1>1, AccessStutters DEF vars, policy, Open, Admitted
  <2>3. QED BY <2>1, <2>2 DEF Good
<1>2. CASE Bridge
  <2>1. CASE PrivateTopics
    BY <2>1, PrepareStep, CreateStep, CreatedStep, CreateFailedStep, ActivateStep, EditStep, MarkStep, EditedStep, MissingStep
       DEF PrivateTopics
  <2>2. CASE Observe \/ \E k \in Keys : Flush(k)
    BY <2>2, ObserveStep, FlushPendingStep
  <2>3. CASE Delete("bridge") \/ Deleted("bridge") \/ ForgetMirror("bridge")
    BY <2>3, DeleteStep, DeletedStep, ForgetStep
  <2>4. CASE (\E g \in Grants : PassOn(g)) \/ PassEnds
    BY <2>4, PassOnStep, PassEndsStep
  <2>5. QED BY <1>2, <2>1, <2>2, <2>3, <2>4 DEF Bridge
<1>3. CASE Owner
  <2>0. CASE \E k \in Keys, g \in Grants : OwnerApproves(k, g)
    BY <2>0, ApprovesStep
  <2>1. CASE \E r \in Recipients, due \in Terms : OwnerGrants(r, due)
    BY <2>1, OwnerGrantsStep
  <2>2. CASE \E g \in Grants : OwnerRepairs(g) \/ OwnerResumes(g) \/ OwnerDeletes(g)
    BY <2>2, RepairStep, ResumeStep, OwnerDeletesStep
  <2>3. CASE \E g \in Grants, next \in {"revoked", "suspended"} : Deny(g, next)
    BY <2>3, DenyStep
  <2>4. QED BY <1>3, <2>0, <2>1, <2>2, <2>3 DEF Owner
<1>4. CASE Loop
  <2>1. CASE SweepStep
    BY <2>1, RetiredStep, DeleteStep, DeletedStep, ForgetStep DEF SweepStep
  <2>2. CASE Expire \/ FlushPolicy \/ \E g \in Grants : Retire(g)
    BY <2>2, ExpireStep, FlushPolicyStep, RetireStep
  <2>3. QED BY <1>4, <2>1, <2>2 DEF Loop
<1>5. CASE Guest
  BY <1>5, BeginStep, EndStep, ArrivesStep DEF Guest
<1>6. CASE World
  <2>1. CASE (\E k \in Keys : AgentHere(k)) \/ AgentGone \/ (\E p \in topics : TopicVanishes(p))
    <3>1. TypeOK' /\ UNCHANGED <<mem, disk, inflight, bridge, pass, sweep, guest, made, denied, pending>>
      BY <2>1, WorldStep
    <3>2. GuestWork' = GuestWork
      BY <3>1 DEF GuestWork
    <3>3. bridge'.at = "activate" => bridge'.topic \in Topics
      BY <3>1 DEF IInv, JobOK
    <3>4. QED BY <3>1, <3>2, <3>3, QuietStep
  <2>2. CASE Crash
    BY <2>2, CrashStep
  <2>3. CASE \E g \in Grants : Lapses(g) \/ Ages(g)
    BY <2>3, PassesStep
  <2>4. QED BY <1>6, <2>1, <2>2, <2>3 DEF World
<1>7. QED BY <1>1, <1>2, <1>3, <1>4, <1>5, <1>6 DEF Next

(* Types, what a start loads, the intents and the admitted work: the       *)
(* invariant of every reachable state.                                     *)
THEOREM SharingInvariant == Spec => []IInv
<1>1. Init => IInv
  BY InitGood, SharingAssumption
<1>2. IInv /\ [Next]_vars => IInv'
  BY NextGood, SharingAssumption DEF Good
<1>3. QED BY <1>1, <1>2, PTL DEF Spec

(* What the owner denied stays denied until he approves it: no event, save,*)
(* expiry, retention or start opens it (domain/sharing.go).                *)
THEOREM DenialIsKept == Spec => []DenialHolds
<1>1. IInv => DenialHolds
  BY DEF IInv, DenialOK, Denied, DenialHolds
<1>2. QED BY <1>1, SharingInvariant, PTL

(* Of every approval at most one private topic is made, whatever fails and *)
(* whenever the process starts again (app/sharing.go, PrepareMirror).      *)
THEOREM OneTopicIsMade == Spec => []OneTopic
<1>1. IInv => OneTopic
  BY DEF IInv, TopicOK, TopicsOf, OneTopic
<1>2. QED BY <1>1, SharingInvariant, PTL

(* Sharing implements ShareAccess: work is admitted at the revision its    *)
(* grant has while it is open, and every change of the grant cancels it.   *)
THEOREM SharingAsPromised == Spec => AsPromised
<1>1. Init => Access!Init
  BY InitGood, SharingAssumption
<1>2. IInv /\ [Next]_vars => [Access!Next]_(Access!vars)
  BY NextGood, SharingAssumption DEF Good
<1>3. QED BY <1>1, <1>2, SharingInvariant, PTL DEF Spec, AsPromised, Access!Spec
=============================================================================
