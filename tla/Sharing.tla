------------------------------- MODULE Sharing ------------------------------
(***************************************************************************)
(* Private sharing: the policy (app/sharing.go, domain/sharing.go,         *)
(* domain/access.go) and who works under it.                               *)
(*                                                                         *)
(*   bridge   the owner's panel (app/sharepanel.go) and the private topics *)
(*            (app/private_reconciler.go); one job at a time               *)
(*   loop     the daemon's: denials ahead of the bridge, expiry, the       *)
(*            periodic save, retention                                     *)
(*   guest    a request of the recipient, authorized when it is dispatched *)
(*                                                                         *)
(* The policy's lock makes a call of Sharing one step; a Telegram call is  *)
(* two, its dispatch under a guard and its answer, and the others run in   *)
(* between.  A grant and its mirror are one record here; the revision of   *)
(* the whole file, which only numbers the saves, is left out, and so are   *)
(* contacts, preferences and the overview's topic, but that they are saved *)
(* with the policy.                                                        *)
(***************************************************************************)
EXTENDS Naturals, Sequences, FiniteSets

CONSTANTS Grants, Recipients, Topics,
          Keys, Digest,          \* agents' keys, all of one pane, and their session
          Unknown,               \* a key without a session
          None,
          Terms,                 \* "never" or "later": when a grant may lapse
          MaxCalls,              \* topics edited in one pass over the grants
          MaxRevision, MaxEvents, MaxSpent   \* bounds, the first for each grant

States == {"pending", "active", "suspended", "revoked", "expired", "needs-repair"}
Mirror == Topics \cup {None, "creating"}
Reasons == {"none", "owner", "exited", "identity", "persistence", "retention"}
Grant == [who: Recipients, key: Keys, rev: Nat, state: States, reason: Reasons, own: BOOLEAN,
          exited: {"no", "recent", "old"}, due: {"never", "later", "past"}, mirror: Mirror]
Request == [at: {"queued", "running"}, grant: Grants, rev: Nat, key: Keys, mirror: Mirror]

ASSUME SharingAssumption ==
  /\ {MaxCalls, MaxEvents, MaxSpent} \subseteq Nat /\ MaxRevision \in [Grants -> Nat]
  /\ DOMAIN Digest = Keys /\ {None, "creating"} \cap (Topics \cup Keys \cup Grants) = {}
  /\ None # "creating" /\ None \notin Grant \cup Request /\ Terms \subseteq {"never", "later"}

VARIABLES mem,       \* the policy in memory: a grant with its mirror, or None
          disk,      \* the policy as saved
          inflight,  \* admitted work that is not cancelled
          bridge,    \* the bridge's job
          pass,      \* a pass over the grants after an event: its key, what it read of the policy, its calls; or None
          sweep,     \* the retention's Telegram call, made on the daemon's loop
          guest,     \* the recipient's request: the origin it was given, or None
          agent,     \* the key of the agent that runs in the pane, or None
          events,    \* on their way to the bridge
          topics,    \* private topics Telegram has, with the grant each was made for
          made,      \* topics made since the owner, or Telegram, settled the last one
          denied,    \* the revision a grant was denied at by the owner, who has not approved it since; or 0
          pending,   \* for each key the event the private topics follow, with the grants it has not come to; or None
          spent      \* failures, crashes and turns of the world so far
policy == <<mem, disk, spent>>
world == <<agent, events, topics>>
vars == <<policy, world, inflight, bridge, pass, sweep, guest, made, denied, pending>>

Idle == [at |-> "idle"]

(* Validate: an active grant has an address.                               *)
Valid(s) == \A g \in Grants : s[g] # None /\ s[g].state = "active" => s[g].mirror \in Topics

Known(k) == Digest[k] # Unknown
SameSession(k, l) == Known(k) /\ Digest[k] = Digest[l]
Live(k) == agent = k

Current(g, rev) == mem[g] # None /\ mem[g].rev = rev
Bumped(r) == [r EXCEPT !.rev = @ + 1]
To(r, state, reason) == [Bumped(r) EXCEPT !.state = state, !.reason = reason]
Mirrored(r, m) == [r EXCEPT !.mirror = m]
Put(r, state, m) == [Bumped(r) EXCEPT !.state = state, !.mirror = m]

(* Transition.                                                             *)
MayBecome(from, to) ==
  CASE to = "revoked"                    -> TRUE
    [] to = "pending"                    -> from # "active"
    [] to = "active"                     -> from \in {"pending", "suspended"}
    [] to \in {"suspended", "expired"}   -> from \in {"active", "pending", "suspended"}
    [] to = "needs-repair"               -> from \in {"pending", "active"}

(* saveLocked: the whole policy, or nothing of it; memory keeps the change *)
(* or what the caller falls back to.  A policy that is not valid is        *)
(* refused.                                                                *)
Spend == spent < MaxSpent /\ spent' = spent + 1
Saved(next) == Valid(next) /\ mem' = next /\ disk' = next /\ UNCHANGED spent
Unsaved(next, fallback) ==
  mem' = fallback /\ UNCHANGED disk /\ (Spend \/ (~Valid(next) /\ UNCHANGED spent))
Save(next) == Saved(next) \/ Unsaved(next, next)

Cancelled(g) == {w \in inflight : w.grant # g}
(* A mutant: what was admitted goes on.                                    *)
CancelNothing(g) == UNCHANGED inflight

Cancel(g) == inflight' = Cancelled(g)

With(g, r) == [mem EXCEPT ![g] = r]
Moved(job, at) == [job EXCEPT !.at = at]
Step(at) == Moved(bridge, at)
Activating(t) == [bridge EXCEPT !.at = "activate", !.topic = t]
Job(at, g, topic, key) == [at |-> at, grant |-> g, rev |-> mem'[g].rev, topic |-> topic, key |-> key]
JobOf(by) == IF by = "bridge" THEN bridge ELSE sweep
SetJob(by, job) ==
  IF by = "bridge" THEN bridge' = job /\ UNCHANGED sweep ELSE sweep' = job /\ UNCHANGED bridge

---------------------------------------------------------------------------
(* Guards.  Begin authorizes guest work and output (AuthorizeShare);       *)
(* BindingGuard only asks that the grant has not changed.                  *)

Authorized(o) ==
  LET g == mem[o.grant] IN
    /\ g # None /\ g.state = "active" /\ g.due # "past"
    /\ g.mirror \in Topics /\ o.mirror = g.mirror
    /\ o.rev = g.rev /\ o.key = g.key /\ Live(g.key)
    /\ (Known(g.key) \/ g.own)

Token(g, rev, by) == [grant |-> g, revision |-> rev, by |-> by]
Release(by) == inflight' = {w \in inflight : w.by # by}

(* A private chat has one queue: a Telegram call at a time.                *)
OtherJob(by) == IF by = "bridge" THEN sweep ELSE bridge
UnderWay(job) == job.at \in {"creating", "editing", "carding", "marking", "deleting"}
QueueFree(by) == UnderWay(OtherJob(by)) => mem[OtherJob(by).grant].who # mem[JobOf(by).grant].who

(* The bridge has nothing to do: it takes up a press, an event or a tick.  *)
Free == bridge = Idle /\ pass = None

Bound(job) == Current(job.grant, job.rev)

(* What cannot be saved is not left open.                                  *)
Fallback(r) == [r EXCEPT !.state = "suspended"]
RolledBack(r) == [r EXCEPT !.state = "suspended", !.reason = "persistence"]

---------------------------------------------------------------------------
(* The owner approves.                                                     *)

NewGrant(r, k) == [who |-> r, key |-> k, rev |-> 0, state |-> "pending", reason |-> "none",
                   own |-> TRUE, exited |-> "no", due |-> "never", mirror |-> None]
Renewed(r, due) == [Bumped(r) EXCEPT !.own = TRUE, !.due = due, !.state = IF @ = "active" THEN @ ELSE "pending"]
Held(r, k) == {g \in Grants : mem[g] # None /\ mem[g].who = r /\ mem[g].key = k}

(* The confirmed choice of the panel: for an agent that runs, and for the  *)
(* grant as it is now, if there is one.                                    *)
OwnerApproves(k, g) ==
  /\ Free /\ Live(k) /\ (mem[g] # None => mem[g].key = k)
  /\ bridge' = [at |-> "check", grant |-> g, rev |-> IF mem[g] = None THEN 0 ELSE mem[g].rev,
                topic |-> None, key |-> k]
  /\ UNCHANGED <<policy, world, inflight, pass, sweep, guest, made, denied, pending>>

(* Grant, once Telegram has said that private topics work: a grant that    *)
(* changed meanwhile is refused.  A new grant gets its topic next, a       *)
(* change of rights of an active one a card; one that could not be saved   *)
(* is suspended if there was one before.                                   *)
OwnerGrants(r, due) ==
  /\ bridge.at = "check"
  /\ LET g == bridge.grant  k == bridge.key
         old == IF mem[g] = None THEN NewGrant(r, k) ELSE mem[g]
         new == Renewed(old, due)
     IN /\ IF mem[g] = None THEN Held(r, k) = {} ELSE mem[g].who = r
        /\ \/ bridge' = Idle /\ UNCHANGED <<policy, inflight, denied>>
           \/ /\ old.rev = bridge.rev /\ new.rev <= MaxRevision[g]
              /\ Cancel(g)
              /\ \/ /\ Saved(With(g, new)) /\ denied' = [denied EXCEPT ![g] = 0]
                    /\ bridge' = IF new.state = "active" THEN Job("card", g, new.mirror, k) ELSE Job("prepare", g, None, None)
                 \/ /\ Unsaved(With(g, new), IF mem[g] = None THEN mem ELSE With(g, Fallback(new)))
                    /\ bridge' = Idle /\ UNCHANGED denied
  /\ UNCHANGED <<world, pass, sweep, guest, made, pending>>

(* A mutant: an intent does not hold the next creation up.                 *)
UnsettledNever(m) == FALSE

(* An intent nobody has settled yet.                                       *)
Unsettled(m) == m = "creating"

(* PrepareMirror: the intent is saved before Telegram is asked.            *)
Prepare ==
  /\ bridge.at = "prepare"
  /\ LET g == bridge.grant  m == mem[g].mirror IN
       IF ~Bound(bridge) \/ mem[g].state # "pending" \/ Unsettled(m) \/ ~Live(mem[g].key)
       THEN bridge' = Idle /\ UNCHANGED policy
       ELSE IF m \in Topics
       THEN bridge' = Activating(m) /\ UNCHANGED policy
       ELSE LET next == With(g, Mirrored(mem[g], "creating")) IN
            \/ Saved(next) /\ bridge' = Step("create")
            \/ Unsaved(next, next) /\ bridge' = Idle
  /\ UNCHANGED <<world, inflight, pass, sweep, guest, made, denied, pending>>

(* A call that binds a topic is dispatched: admitted, or refused.          *)
Dispatch(by, sent, refused) ==
  /\ QueueFree(by)
  /\ IF Bound(JobOf(by))
     THEN SetJob(by, sent) /\ inflight' = inflight \cup {Token(JobOf(by).grant, JobOf(by).rev, by)}
     ELSE SetJob(by, refused) /\ UNCHANGED inflight

Create ==
  /\ bridge.at = "create"
  /\ Dispatch("bridge", Step("creating"), Step("failed"))
  /\ UNCHANGED <<policy, world, pass, guest, made, denied, pending>>

(* Telegram makes the topic and says so, or the answer is lost, or it      *)
(* makes none; the call is not repeated.                                   *)
Created ==
  /\ bridge.at = "creating" /\ Release("bridge")
  /\ \/ \E t \in Topics \ {p.topic : p \in topics} :
          /\ topics' = topics \cup {[topic |-> t, grant |-> bridge.grant]}
          /\ made' = [made EXCEPT ![bridge.grant] = @ + 1]
          /\ bridge' \in {Activating(t), Step("failed")}
     \/ bridge' = Step("failed") /\ UNCHANGED <<topics, made>>
  /\ UNCHANGED <<policy, agent, events, pass, sweep, guest, denied, pending>>

(* Whatever came of it, the owner has to look.                             *)
CreateFailed ==
  /\ bridge.at = "failed" /\ bridge' = Idle
  /\ LET g == bridge.grant IN
       IF Bound(bridge) /\ MayBecome(mem[g].state, "needs-repair")
       THEN Cancel(g) /\ Save(With(g, To(mem[g], "needs-repair", "owner")))
       ELSE UNCHANGED <<policy, inflight>>
  /\ UNCHANGED <<world, pass, sweep, guest, made, denied, pending>>

(* The recipient is told with a card what is shared.                       *)
ActivateMirror ==
  /\ bridge.at = "activate"
  /\ LET g == bridge.grant IN
       IF ~Bound(bridge) \/ mem[g].state # "pending" THEN bridge' = Idle /\ UNCHANGED policy
       ELSE LET new == Put(mem[g], "active", bridge.topic) IN
            \/ Saved(With(g, new)) /\ bridge' = Job("card", g, new.mirror, new.key)
            \/ Unsaved(With(g, new), With(g, Put(mem[g], "needs-repair", bridge.topic))) /\ bridge' = Idle
  /\ UNCHANGED <<world, inflight, pass, sweep, guest, made, denied, pending>>

(* RepairMirror: the owner looked, the intent is forgotten.                *)
OwnerRepairs(g) ==
  /\ Free /\ mem[g] # None /\ mem[g].state \in {"needs-repair", "pending"}
  /\ mem[g].rev < MaxRevision[g]
  /\ LET next == With(g, Put(mem[g], "pending", None)) IN
       \/ Saved(next) /\ bridge' = Job("prepare", g, None, None)
       \/ Unsaved(next, next) /\ UNCHANGED bridge
  /\ made' = [made EXCEPT ![g] = 0]
  /\ UNCHANGED <<world, inflight, pass, sweep, guest, denied, pending>>

(* ChangeState to active: only what the owner suspended, for an agent that *)
(* runs and is known to be the same.                                       *)
OwnerResumes(g) ==
  /\ Free /\ mem[g] # None /\ MayBecome(mem[g].state, "active") /\ mem[g].rev < MaxRevision[g]
  /\ mem[g].due # "past" /\ mem[g].reason = "owner" /\ (Known(mem[g].key) \/ mem[g].own)
  /\ Live(mem[g].key)
  /\ Cancel(g)
  /\ LET new == To(mem[g], "active", "owner") IN
       \/ Saved(With(g, new)) /\ denied' = [denied EXCEPT ![g] = 0]
       \/ Unsaved(With(g, new), With(g, Fallback(new))) /\ UNCHANGED denied
  /\ UNCHANGED <<world, bridge, pass, sweep, guest, made, pending>>

---------------------------------------------------------------------------
(* The agent's life, and the private topics after it (Lifecycle,           *)
(* flushEvent).                                                            *)

(* A mutant: what the owner suspended is touched as well.                  *)
TouchedSuspended(g) == mem[g] # None /\ mem[g].state \in {"active", "suspended"}

Touched(g) == mem[g] # None /\ (mem[g].state = "active" \/ (mem[g].state = "suspended" /\ mem[g].reason = "exited"))

Revived(r, k) == [To(r, "active", "none") EXCEPT !.key = k, !.exited = "no"]

(* A grant follows its session; one that is not known to be the same needs *)
(* the owner.                                                              *)
After(r, kind, k) ==
  CASE kind = "gone" -> [To(r, "suspended", "exited") EXCEPT !.exited = "recent"]
    [] kind = "here" /\ (r.key # k \/ (~Known(r.key) /\ ~r.own)) ->
         IF SameSession(r.key, k) THEN Revived(r, k) ELSE To(r, "suspended", "identity")
    [] kind = "here" /\ r.key = k /\ (Known(k) \/ r.own) ->
         IF r.state = "suspended" /\ Known(k) THEN Revived(r, k) ELSE r

Follows(kind) == [kind |-> kind, left |-> Grants]

(* What the pass reads of a grant it has to do with.                       *)
Concerned(r) == r # None /\ (r.state = "active" \/ r.reason = "exited")
Shown(r) == IF Concerned(r) THEN [rev |-> r.rev, key |-> r.key, mirror |-> r.mirror] ELSE None
Passing(k) == [key |-> k, shown |-> [g \in Grants |-> Shown(mem'[g])], calls |-> 0]

(* Its grants are passed over, if topics are synchronized.                 *)
CatchesUp(k, pend) ==
  \/ pass' = Passing(k) /\ pending' = pend
  \/ pass' = None /\ pending' = [pend EXCEPT ![k] = None]

FlushEvent(k, pend) ==
  LET next == [g \in Grants |-> IF Touched(g) THEN After(mem[g], pend[k].kind, k) ELSE mem[g]]
      changed == {g \in Grants : next[g] # mem[g]}
  IN /\ \A g \in changed : next[g].rev <= MaxRevision[g]
     /\ inflight' = {w \in inflight : w.grant \notin changed}
     /\ \/ changed = {} /\ UNCHANGED policy /\ CatchesUp(k, pend)
        \/ changed # {} /\ Saved(next) /\ CatchesUp(k, pend)
        \/ /\ changed # {}
           /\ Unsaved(next, [g \in Grants |->
                IF Touched(g) THEN RolledBack(next[g]) ELSE mem[g]])
           /\ pass' = None /\ pending' = pend
     /\ UNCHANGED <<agent, topics, bridge, sweep, guest, made, denied>>

Observe ==
  /\ Free /\ events # <<>>
  /\ events' = Tail(events)
  /\ FlushEvent(Head(events).key, [pending EXCEPT ![Head(events).key] = Follows(Head(events).kind)])

(* The tick takes up an event that was not finished, with the grants it    *)
(* has not come to.                                                        *)
Flush(k) == Free /\ pending[k] # None /\ FlushEvent(k, pending) /\ UNCHANGED events

(* The pass comes to a grant, in an order of its own: its topic shows that *)
(* already, or is paused, or is edited; the topic of an agent that is gone *)
(* or has another key is marked.                                           *)
EditOf(g) ==
  LET r == pass.shown[g]
  IN [at |-> IF r.key # pass.key \/ pending[pass.key].kind = "gone" THEN "mark" ELSE "edit",
      grant |-> g, rev |-> r.rev, topic |-> r.mirror, key |-> r.key]
PassOn(g) ==
  /\ bridge = Idle /\ pass # None /\ pass.calls < MaxCalls /\ g \in pending[pass.key].left
  /\ pending' = [pending EXCEPT ![pass.key].left = @ \ {g}]
  /\ \/ UNCHANGED <<bridge, pass>>
     \/ pass.shown[g] # None /\ bridge' = EditOf(g) /\ pass' = [pass EXCEPT !.calls = @ + 1]
  /\ UNCHANGED <<policy, world, inflight, sweep, guest, made, denied>>

(* It has come to all of them, or has made its calls; a tick goes on then. *)
PassEnds ==
  /\ bridge = Idle /\ pass # None /\ pass' = None
  /\ \/ pending[pass.key].left = {} /\ pending' = [pending EXCEPT ![pass.key] = None]
     \/ pending[pass.key].left # {} /\ pass.calls >= MaxCalls /\ UNCHANGED pending
  /\ UNCHANGED <<policy, world, inflight, bridge, sweep, guest, made, denied>>

(* What is shown to the recipient is authorized like his own requests; a   *)
(* mark asks only that the grant is the same.                              *)
Edit ==
  /\ bridge.at \in {"edit", "card"} /\ QueueFree("bridge")
  /\ LET o == [grant |-> bridge.grant, rev |-> bridge.rev, key |-> bridge.key, mirror |-> bridge.topic] IN
       IF Authorized(o)
       THEN /\ bridge' = Step(IF bridge.at = "edit" THEN "editing" ELSE "carding")
            /\ inflight' = inflight \cup {Token(o.grant, o.rev, "bridge")}
       ELSE bridge' = Idle /\ UNCHANGED inflight
  /\ UNCHANGED <<policy, world, pass, sweep, guest, made, denied, pending>>

Mark ==
  /\ bridge.at = "mark"
  /\ Dispatch("bridge", Step("marking"), Idle)
  /\ UNCHANGED <<policy, world, pass, guest, made, denied, pending>>

(* It is done, or not and left at that; the topic of an edit may be found  *)
(* gone.  That a recipient cannot be reached is saved with the policy.     *)
Edited ==
  /\ bridge.at \in {"editing", "carding", "marking"} /\ Release("bridge")
  /\ \/ bridge' = Idle /\ (UNCHANGED policy \/ Save(mem))
     \/ /\ bridge.at = "editing" /\ \A p \in topics : p.topic # bridge.topic
        /\ bridge' = Step("missing") /\ UNCHANGED policy
  /\ UNCHANGED <<world, pass, sweep, guest, made, denied, pending>>

(* MissingMirror: a topic removed by hand is made again, and the pass is   *)
(* over.                                                                   *)
Missing ==
  /\ bridge.at = "missing" /\ pass' = None
  /\ LET g == bridge.grant IN
       IF ~Bound(bridge) \/ mem[g].state # "active"
       THEN bridge' = Idle /\ UNCHANGED <<policy, inflight, made>>
       ELSE LET next == With(g, Put(mem[g], "pending", None)) IN
            /\ mem[g].rev < MaxRevision[g] /\ Cancel(g)
            /\ made' = [made EXCEPT ![g] = 0]
            /\ \/ Saved(next) /\ bridge' = Job("prepare", g, None, None)
               \/ Unsaved(next, next) /\ bridge' = Idle
  /\ UNCHANGED <<world, sweep, guest, denied, pending>>

---------------------------------------------------------------------------
(* The owner denies, time passes, topics are removed.                      *)

(* DenyImmediately: on the loop, ahead of the bridge, for the revision of  *)
(* the panel that was pressed; of an older one nothing changes.            *)
Deny(g, next) ==
  /\ sweep = Idle /\ mem[g] # None /\ mem[g].rev < MaxRevision[g] /\ MayBecome(mem[g].state, next)
  /\ Cancel(g)
  /\ denied' = [denied EXCEPT ![g] = mem[g].rev + 1]
  /\ Save(With(g, To(mem[g], next, "owner")))
  /\ UNCHANGED <<world, bridge, pass, sweep, guest, made, pending>>

Expire ==
  LET lapsed == {g \in Grants : mem[g] # None /\ mem[g].due = "past" /\ mem[g].state \in {"active", "suspended", "pending"}}
  IN /\ sweep = Idle /\ lapsed # {} /\ \A g \in lapsed : mem[g].rev < MaxRevision[g]
     /\ inflight' = {w \in inflight : w.grant \notin lapsed}
     /\ Save([g \in Grants |-> IF g \in lapsed THEN To(mem[g], "expired", mem[g].reason) ELSE mem[g]])
     /\ UNCHANGED <<world, bridge, pass, sweep, guest, made, denied, pending>>

(* What is not saved yet is saved: by the loop from time to time, and with *)
(* a contact or a preference whenever one is noted.                        *)
FlushPolicy ==
  /\ mem # disk /\ Save(mem)
  /\ UNCHANGED <<world, inflight, bridge, pass, sweep, guest, made, denied, pending>>

(* RetireMirror: what is left of an agent that exited long ago.            *)
Retained(r) == IF r.state = "revoked" THEN [r EXCEPT !.reason = "retention"] ELSE To(r, "revoked", "retention")
Retire(g) ==
  /\ sweep = Idle /\ mem[g] # None
  /\ mem[g].reason \in {"exited", "retention"} /\ mem[g].exited = "old" /\ mem[g].mirror \in Topics
  /\ Cancel(g)
  /\ LET next == With(g, Retained(mem[g]))
     IN /\ next[g].rev <= MaxRevision[g]
        /\ \/ Saved(next) /\ sweep' = Job("retired", g, mem[g].mirror, None)
           \/ Unsaved(next, next) /\ UNCHANGED sweep
  /\ UNCHANGED <<world, bridge, pass, guest, made, denied, pending>>

(* The revision the removal is bound to is read again.                     *)
Retired ==
  /\ sweep.at = "retired"
  /\ sweep' = [sweep EXCEPT !.at = "delete", !.rev = mem[sweep.grant].rev]
  /\ UNCHANGED <<policy, world, inflight, bridge, pass, guest, made, denied, pending>>

(* The owner has a mirror removed: revoked first.                          *)
OwnerDeletes(g) ==
  /\ Free /\ mem[g] # None /\ mem[g].rev < MaxRevision[g]
  /\ Cancel(g) /\ denied' = [denied EXCEPT ![g] = mem[g].rev + 1]
  /\ LET next == With(g, To(mem[g], "revoked", "owner")) IN
       \/ /\ Saved(next)
          /\ bridge' = IF mem[g].mirror \in Topics THEN Job("delete", g, mem[g].mirror, None) ELSE Idle
       \/ Unsaved(next, next) /\ UNCHANGED bridge
  /\ UNCHANGED <<world, pass, sweep, guest, made, pending>>

Delete(by) ==
  /\ JobOf(by).at = "delete"
  /\ Dispatch(by, Moved(JobOf(by), "deleting"), Idle)
  /\ UNCHANGED <<policy, world, pass, guest, made, denied, pending>>

(* The topic is gone and that is known, or the answer is an error.         *)
Deleted(by) ==
  /\ JobOf(by).at = "deleting" /\ Release(by)
  /\ \/ /\ topics' \in {topics, {p \in topics : p.topic # JobOf(by).topic}}
        /\ SetJob(by, Idle)
     \/ /\ topics' = {p \in topics : p.topic # JobOf(by).topic}
        /\ SetJob(by, Moved(JobOf(by), "forget"))
  /\ UNCHANGED <<policy, agent, events, pass, guest, made, denied, pending>>

ForgetMirror(by) ==
  /\ JobOf(by).at = "forget" /\ SetJob(by, Idle)
  /\ LET g == JobOf(by).grant IN
       IF Bound(JobOf(by)) /\ mem[g].state = "revoked"
       THEN Save(With(g, Mirrored(mem[g], None))) /\ made' = [made EXCEPT ![g] = 0]
       ELSE UNCHANGED <<policy, made>>
  /\ UNCHANGED <<world, inflight, pass, guest, denied, pending>>

---------------------------------------------------------------------------
(* The recipient.                                                          *)

Arrives(g) ==
  /\ guest = None /\ mem[g] # None /\ mem[g].state = "active"
  /\ guest' = [at |-> "queued", grant |-> g, rev |-> mem[g].rev, key |-> mem[g].key, mirror |-> mem[g].mirror]
  /\ UNCHANGED <<policy, world, inflight, bridge, pass, sweep, made, denied, pending>>

Begin ==
  /\ guest # None /\ guest.at = "queued"
  /\ IF Authorized(guest)
     THEN /\ guest' = [guest EXCEPT !.at = "running"]
          /\ inflight' = inflight \cup {Token(guest.grant, guest.rev, "guest")}
     ELSE guest' = None /\ UNCHANGED inflight
  /\ UNCHANGED <<policy, world, bridge, pass, sweep, made, denied, pending>>

End ==
  /\ guest # None /\ guest.at = "running" /\ guest' = None /\ Release("guest")
  /\ UNCHANGED <<policy, world, bridge, pass, sweep, made, denied, pending>>

---------------------------------------------------------------------------
(* The world.                                                              *)

Announce(kind, k) == Len(events) < MaxEvents /\ events' = Append(events, [kind |-> kind, key |-> k])

(* An agent starts, moves on to another key, or says something.            *)
AgentHere(k) ==
  /\ Spend /\ agent' = k /\ Announce("here", k)
  /\ UNCHANGED <<mem, disk, topics, inflight, bridge, pass, sweep, guest, made, denied, pending>>

AgentGone ==
  /\ agent # None /\ agent' = None /\ Spend /\ Announce("gone", agent)
  /\ UNCHANGED <<mem, disk, topics, inflight, bridge, pass, sweep, guest, made, denied, pending>>

Due(r) == [r EXCEPT !.due = "past"]
Aged(r) == [r EXCEPT !.exited = "old"]
Passes(g, r, saved) ==
  /\ mem' = With(g, r) /\ disk' = saved
  /\ Spend /\ UNCHANGED <<world, inflight, bridge, pass, sweep, guest, made, denied, pending>>
Lapses(g) ==
  /\ mem[g] # None /\ mem[g].due = "later"
  /\ Passes(g, Due(mem[g]), IF disk[g] # None /\ disk[g].due = "later" THEN [disk EXCEPT ![g] = Due(disk[g])] ELSE disk)
Ages(g) ==
  /\ mem[g] # None /\ mem[g].exited = "recent"
  /\ Passes(g, Aged(mem[g]), IF disk[g] # None /\ disk[g].exited = "recent" THEN [disk EXCEPT ![g] = Aged(disk[g])] ELSE disk)

TopicVanishes(p) ==
  /\ Spend /\ topics' = topics \ {p}
  /\ UNCHANGED <<mem, disk, agent, events, inflight, bridge, pass, sweep, guest, made, denied, pending>>

(* What was saved is loaded by a process with another identity; agents     *)
(* that run are announced.                                                 *)
Foreign(r) == IF r = None THEN None ELSE [r EXCEPT !.own = FALSE]
Crash ==
  /\ Spend
  /\ disk' = [g \in Grants |-> Foreign(disk[g])]
  /\ mem' = disk' /\ inflight' = {} /\ bridge' = Idle /\ pass' = None /\ sweep' = Idle /\ guest' = None
  /\ events' = IF agent = None THEN <<>> ELSE <<[kind |-> "here", key |-> agent]>>
  /\ pending' = [k \in Keys |-> None]
  /\ denied' = [g \in Grants |-> IF disk[g] # None /\ disk[g].rev >= denied[g] THEN denied[g] ELSE 0]
  /\ UNCHANGED <<agent, topics, made>>

---------------------------------------------------------------------------
Init ==
  /\ mem = [g \in Grants |-> None] /\ disk = mem /\ inflight = {}
  /\ bridge = Idle /\ pass = None /\ sweep = Idle /\ guest = None
  /\ agent \in Keys /\ events = <<>> /\ pending = [k \in Keys |-> None]
  /\ topics = {} /\ made = [g \in Grants |-> 0] /\ denied = [g \in Grants |-> 0]
  /\ spent = 0

PrivateTopics == Prepare \/ Create \/ Created \/ CreateFailed \/ ActivateMirror \/ Edit \/ Mark \/ Edited \/ Missing

Bridge ==
  \/ PrivateTopics \/ Observe \/ (\E k \in Keys : Flush(k)) \/ (\E g \in Grants : PassOn(g)) \/ PassEnds
  \/ Delete("bridge") \/ Deleted("bridge") \/ ForgetMirror("bridge")

Owner ==
  \/ \E k \in Keys, g \in Grants : OwnerApproves(k, g)
  \/ \E r \in Recipients, due \in Terms : OwnerGrants(r, due)
  \/ \E g \in Grants : OwnerRepairs(g) \/ OwnerResumes(g) \/ OwnerDeletes(g)
  \/ \E g \in Grants, next \in {"revoked", "suspended"} : Deny(g, next)

SweepStep == Retired \/ Delete("sweep") \/ Deleted("sweep") \/ ForgetMirror("sweep")
Loop == Expire \/ FlushPolicy \/ SweepStep \/ \E g \in Grants : Retire(g)
Guest == Begin \/ End \/ \E g \in Grants : Arrives(g)
World ==
  \/ \E k \in Keys : AgentHere(k)
  \/ AgentGone \/ Crash
  \/ \E g \in Grants : Lapses(g) \/ Ages(g)
  \/ \E p \in topics : TopicVanishes(p)

Next == Bridge \/ Owner \/ Loop \/ Guest \/ World
Spec == Init /\ [][Next]_vars

---------------------------------------------------------------------------
(* What is admitted, is admitted as promised: at the grant's revision, and *)
(* not for longer than that.                                               *)
Open == {g \in Grants : mem[g] # None /\ mem[g].state = "active"}
Admitted == {[grant |-> w.grant, revision |-> w.revision] : w \in {v \in inflight : v.by = "guest"}}
Access == INSTANCE ShareAccess WITH
  open <- Open, revision <- [g \in Grants |-> IF mem[g] = None THEN 0 ELSE mem[g].rev], work <- Admitted
AsPromised == Access!Spec

(* What the owner denied stays denied until he approves it, through every  *)
(* event, save and start; a start may bring back a denial that was never   *)
(* saved, and the panel says so.                                           *)
DenialHolds == \A g \in Grants : denied[g] # 0 => mem[g].state \in {"revoked", "suspended", "expired"}

(* No topic is made while an earlier one may be there: of every approval   *)
(* at most one, unless the owner looked or Telegram lost it.               *)
OneTopic == \A g \in Grants : made[g] <= 1
=============================================================================
