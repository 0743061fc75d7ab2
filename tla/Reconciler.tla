---------------------------- MODULE Reconciler -----------------------------
(***************************************************************************)
(* The topic mirror: internal/app/reconciler.go and sweep.go run by the    *)
(* loop of daemon.go, over the mapping file and a Telegram forum.          *)
(*                                                                         *)
(* One goroutine, the daemon loop, owns the mapping.  A handler is a chain *)
(* of steps, and a step ends where the goroutine can be stopped by a crash *)
(* or overtaken by the world: before a Telegram call, between the call and *)
(* the record of it, at a save.  `phase' says which loop the goroutine is  *)
(* in, `at' the step it has reached inside an operation on agent `key':    *)
(*                                                                         *)
(*   create -> intent -> creating -> link                                  *)
(*          -> revive -> reopening -> reopened -> refreshing -> refreshed  *)
(*   edit   -> editing -> edited                                           *)
(*   exit   -> exiting -> exited -> close                                  *)
(*   finish -> exiting                                                     *)
(*   close  -> closing -> closed          sweep: deleting -> deleted       *)
(*                                                                         *)
(* A step in -ing is a request about to be answered by Telegram.           *)
(*                                                                         *)
(* Telegram is what the adapter's answers say of it: a topic is open,      *)
(* closed or deleted, a request is carried out, refused, or lost with or   *)
(* without having been carried out.  Herdr is the set of agents its next   *)
(* snapshot lists.                                                         *)
(***************************************************************************)
EXTENDS AgentEvents

CONSTANTS Worlds,      \* sets of agents a snapshot may list
          MaxThread,   \* bound: topics Telegram can be asked to create
          MaxEvents,   \* bound: events waiting in the registry's channel
          MaxInbox,    \* bound: Telegram updates waiting
          MaxSteps,    \* bound: things the world does by itself
          MaxDay,      \* bound: the calendar
          MaxAge,      \* days after which a closed topic is swept
          Faults,      \* ways a call may fail besides a state of the topic
          DiskFaults,  \* whether a save may fail
          Doings       \* what the world may do by itself

AllFaults == {"transient", "timeout", "forbidden", "migrated", "snapshot", "rename"}
AllDoings == {"herdr", "close", "reopen", "delete", "rename", "right", "hold",
              "resync", "day", "crash", "stop"}

ASSUME BoundsAssumption ==
  /\ MaxThread \in Nat /\ MaxEvents \in Nat /\ MaxInbox \in Nat
  /\ MaxSteps \in Nat /\ MaxDay \in Nat /\ MaxAge \in Nat
  /\ Faults \subseteq AllFaults /\ DiskFaults \in BOOLEAN /\ Doings \subseteq AllDoings
ASSUME WorldsAssumption ==
  \A W \in Worlds : W \subseteq Agent /\ IsFiniteSet(W) /\ \A a, b \in W : a.key = b.key => a = b

VARIABLES
  up, reason,                        \* the process, and why it is not running
  topics, pending, dirty,            \* Reconciler.mapping and .dirty
  disk,                              \* mapping.json
  agents, deb, due, rightsLost,      \* Reconciler.agents, .deb (timers, channel), .rightsLost
  phase, at, key, made, batch, left, force,   \* where the loop's goroutine is
  registry, events,                  \* Registry.agents and its channel
  tg, home, strays,                  \* the forum, whom a topic was made for, topics of repeated requests
  canManage, inbox,                  \* the bot's right, updates not yet handled
  held, wake, now, steps             \* sync off or quiet, the catch-up asked for, the day, the bound

life   == <<up, reason>>
tables == <<topics, pending, dirty, disk>>
memory == <<agents, deb, due, rightsLost>>
work   == <<phase, at, key, made, batch, left, force>>
herd   == <<registry, events>>
forum  == <<tg, home, strays, canManage, inbox>>
env    == <<held, wake, now, steps>>
vars   == <<life, tables, memory, work, herd, forum, env>>

Thread == 1..MaxThread
AnyKey == CHOOSE k \in Key : TRUE
Phases == {"idle", "one", "events", "flush", "reconcile", "orphans", "unclosed", "live",
           "sweep", "stop"}
Steps == {"none", "create", "intent", "creating", "link", "rejected", "migrated",
          "revive", "reopening", "reopened", "refreshing", "refreshed", "edit", "editing",
          "edited", "exit", "exiting", "exited", "finish", "close", "closing", "closed",
          "deleting", "deleted"}
TopicState == [state : {"unused", "open", "closed", "deleted"},
               name : Name \cup {Unknown}, status : LiveStatus \cup {Exited}]
Update == [kind : {"closed", "reopened"}, thread : Thread]
            \cup [kind : {"renamed"}, thread : Thread, name : Name]
            \cup [kind : {"rights"}, granted : BOOLEAN]

Unused == [state |-> "unused", name |-> Unknown, status |-> Exited]
Exists(t) == tg[t].state \in {"open", "closed"}

Init ==
  /\ up = FALSE /\ reason = "new"
  /\ topics = [k \in Key |-> NoEntry] /\ pending = {} /\ dirty = FALSE
  /\ disk = [topics |-> topics, pending |-> pending]
  /\ agents = {} /\ deb = {} /\ due = {} /\ rightsLost = FALSE
  /\ phase = "idle" /\ at = "none" /\ key = AnyKey /\ made = 0
  /\ batch = <<>> /\ left = {} /\ force = FALSE
  /\ registry = {} /\ events = <<>>
  /\ tg = [t \in Thread |-> Unused] /\ home = [t \in Thread |-> AnyKey]
  /\ strays = {} /\ canManage = TRUE /\ inbox = <<>>
  /\ held = FALSE /\ wake = "none" /\ now = 0 /\ steps = 0

Blocked == rightsLost \/ held
Mine(k) == CHOOSE a \in agents : a.key = k
Put(S, a) == {b \in S : b.key # a.key} \cup {a}

---------------------------------------------------------------------------
(* How a step ends: it goes on to another step, the operation is over with *)
(* nil or with an error the daemon survives, or the process ends.          *)

Goto(step, k) == at' = step /\ key' = k /\ UNCHANGED <<phase, made, batch, left, force>>

Over(next, keep) ==
  /\ phase' = next /\ left' = keep
  /\ at' = "none" /\ key' = AnyKey /\ made' = 0 /\ batch' = batch
  /\ force' = (force /\ next # "idle")

Return == Over(IF phase = "one" THEN "idle" ELSE phase, left)

(* handleErr absorbs a cancelled call and a migrated chat: the loop the    *)
(* operation belongs to is left, the rest of a replay still runs.          *)
Fail ==
  CASE phase = "events" -> Over("events", {})
    [] phase = "flush"  -> Over("reconcile", {})
    [] phase = "stop"   -> Over("stop", {})
    [] OTHER            -> Over("idle", {})

(* The process is gone.  Its tables are what the next start will load.     *)
Down(why, saved) ==
  /\ up' = FALSE /\ reason' = why
  /\ disk' = saved /\ topics' = saved.topics /\ pending' = saved.pending /\ dirty' = FALSE
  /\ agents' = {} /\ deb' = {} /\ due' = {} /\ rightsLost' = FALSE
  /\ phase' = "idle" /\ at' = "none" /\ key' = AnyKey /\ made' = 0
  /\ batch' = <<>> /\ left' = {} /\ force' = FALSE
  /\ registry' = {} /\ events' = <<>>

Fatal(why) == Down(why, disk)

(* Mutant of Saved: the file is left for the next save to write.           *)
SavedLater(new, pend) == topics' = new /\ pending' = pend /\ dirty' = TRUE /\ disk' = disk

(* Reconciler.save: the whole mapping replaces the file, or nothing does.  *)
Saved(new, pend) ==
  /\ topics' = new /\ pending' = pend /\ dirty' = FALSE
  /\ disk' = [topics |-> new, pending |-> pend]

(* Every failed save but one (ClearDashboard) ends the process.            *)
SaveFails == DiskFaults /\ Fatal("save")

(* Mutant of Touch: a time before the calendar.                            *)
TouchUnset(k, e) == [topics EXCEPT ![k] = [e EXCEPT !.at = 0 - 1]]

Touch(k, e) == [topics EXCEPT ![k] = [e EXCEPT !.at = now]]

---------------------------------------------------------------------------
(* A Telegram call on thread t that would leave it in state v, and         *)
(* Reconciler.fail, what becomes of the calls that do not succeed.         *)

Effect(t, v) == tg' = [tg EXCEPT ![t] = v] /\ UNCHANGED <<home, strays, canManage, inbox>>
MaybeEffect(t, v) == UNCHANGED forum \/ (Exists(t) /\ canManage /\ Effect(t, v))

Succeeds(t, v) == Exists(t) /\ canManage /\ Effect(t, v)
(* Mutant of Gone: the answer for a closed topic is taken for a deletion.  *)
GoneOrClosed(t) == tg[t].state # "open"

Gone(t) == tg[t].state = "deleted"

(* Answers logged and left to the next pass: no right, a closed topic      *)
(* refuses an edit, a closed (open) topic is not closed (reopened) again,  *)
(* the answer was lost.  Only an edit takes "not modified" for success.    *)
Skipped(t, v) ==
  \/ /\ Exists(t) /\ UNCHANGED forum
     /\ \/ ~canManage
        \/ at \in {"editing", "exiting", "refreshing"} /\ tg[t].state = "closed"
        \/ at \in {"closing", "reopening"} /\ v = tg[t]
  \/ "transient" \in Faults /\ MaybeEffect(t, v)
Survived(t, v) ==
  \/ "timeout" \in Faults /\ MaybeEffect(t, v)
  \/ "migrated" \in Faults /\ UNCHANGED forum
Forbidden == "forbidden" \in Faults /\ UNCHANGED forum

FailPolicy(t, v) ==
  \/ /\ Gone(t) /\ UNCHANGED forum
     /\ \/ Saved(Forget(topics, key), pending) /\ Return /\ UNCHANGED <<life, memory, herd>>
        \/ SaveFails
  \/ Skipped(t, v) /\ Return /\ UNCHANGED <<life, tables, memory, herd>>
  \/ Survived(t, v) /\ Fail /\ UNCHANGED <<life, tables, memory, herd>>
  \/ Forbidden /\ Fatal("forbidden")

Answered(t, v, next) ==
  /\ \/ Succeeds(t, v) /\ Goto(next, key) /\ UNCHANGED <<life, tables, memory, herd>>
     \/ FailPolicy(t, v)
  /\ UNCHANGED env

(* The record of a call that succeeded, and its save.                      *)
Recorded(e, next) ==
  /\ \/ /\ Saved(Touch(key, e), pending)
        /\ (IF next = "none" THEN Return ELSE Goto(next, key))
        /\ UNCHANGED <<life, memory, herd>>
     \/ SaveFails
  /\ UNCHANGED <<forum, env>>

Proceed(step) == Goto(step, key) /\ UNCHANGED <<life, tables, memory, herd, forum, env>>
Quit == Return /\ UNCHANGED <<life, tables, memory, herd, forum, env>>

---------------------------------------------------------------------------
(* createTopic.  The intent is on disk before Telegram is asked, and an    *)
(* intent that is already there ends the daemon.                           *)

Create ==
  /\ at = "create"
  /\ IF Blocked THEN Quit
     ELSE Proceed(IF key \in Mapped(topics) /\ ~Live(topics[key]) THEN "revive" ELSE "intent")

(* Mutants of Intent: the mark is kept in memory until the topic is        *)
(* linked; a marked creation is asked for again.                           *)
IntentLater ==
  /\ at = "intent"
  /\ IF key \in pending THEN Fatal("intent")
     ELSE /\ pending' = pending \cup {key} /\ Goto("creating", key)
          /\ UNCHANGED <<topics, dirty, disk, life, memory, herd>>
  /\ UNCHANGED <<forum, env>>

IntentRetried ==
  /\ at = "intent" /\ Saved(topics, pending \cup {key}) /\ Goto("creating", key)
  /\ UNCHANGED <<life, memory, herd, forum, env>>

Intent ==
  /\ at = "intent"
  /\ IF key \in pending THEN Fatal("intent")
     ELSE \/ /\ Saved(topics, pending \cup {key}) /\ Goto("creating", key)
             /\ UNCHANGED <<life, memory, herd>>
          \/ SaveFails
  /\ UNCHANGED <<forum, env>>

(* Telegram makes a topic: the next id, named and marked for the agent.    *)
Fresh == {t \in Thread : tg[t].state = "unused" /\ \A u \in 1..(t - 1) : tg[u].state # "unused"}
Makes(t) ==
  /\ tg' = [tg EXCEPT ![t] = [state |-> "open", name |-> Mine(key).name, status |-> Mine(key).status]]
  /\ home' = [home EXCEPT ![t] = key]
  /\ UNCHANGED <<canManage, inbox>>

(* The answer arrives; it is lost after the queue's last attempt; or the   *)
(* request is refused in a way that says nothing was made.                 *)
Creating ==
  /\ at = "creating"
  /\ \/ /\ canManage
        /\ \E t \in Fresh : Makes(t) /\ made' = t
        /\ at' = "link" /\ UNCHANGED <<strays, key, phase, batch, left, force>>
        /\ UNCHANGED <<life, tables, memory, herd>>
     \/ /\ \/ ~canManage /\ UNCHANGED forum
           \/ "transient" \in Faults /\ UNCHANGED forum
           \/ "transient" \in Faults /\ canManage /\ UNCHANGED strays /\ \E t \in Fresh : Makes(t)
        /\ Fatal("create")
     \/ /\ "timeout" \in Faults
        /\ UNCHANGED forum \/ (canManage /\ UNCHANGED strays /\ \E t \in Fresh : Makes(t))
        /\ Fail /\ UNCHANGED <<life, tables, memory, herd>>
     \/ /\ \E answer \in Faults \cap {"forbidden", "migrated"} :
             Goto(IF answer = "forbidden" THEN "rejected" ELSE "migrated", key)
        /\ UNCHANGED <<life, tables, memory, herd, forum>>
  /\ UNCHANGED env

(* The call queue repeats a request whose answer was lost; for a forum it  *)
(* repeats createForumTopic too.                                           *)
CreateRepeated ==
  /\ at = "creating" /\ "transient" \in Faults /\ canManage
  /\ \E t \in Fresh : Makes(t) /\ strays' = strays \cup {t}
  /\ UNCHANGED <<life, tables, memory, work, herd, env>>

LinkTopic ==
  /\ at = "link"
  /\ \/ /\ Saved(Link(topics, Mine(key), made, now), pending \ {key}) /\ Return
        /\ UNCHANGED <<life, memory, herd>>
     \/ SaveFails
  /\ UNCHANGED <<forum, env>>

ClearIntent ==
  /\ \/ at = "rejected" /\ Down("forbidden", [topics |-> topics, pending |-> pending \ {key}])
     \/ /\ at = "migrated" /\ Saved(topics, pending \ {key}) /\ Fail
        /\ UNCHANGED <<life, memory, herd>>
     \/ at \in {"rejected", "migrated"} /\ SaveFails
  /\ UNCHANGED <<forum, env>>

---------------------------------------------------------------------------
(* revive: a returning agent continues in its old topic.                   *)

Revive ==
  /\ at = "revive"
  /\ IF topics[key].muted THEN Quit
     ELSE Proceed(IF topics[key].closed THEN "reopening" ELSE "reopened")

Reopening ==
  /\ at = "reopening"
  /\ LET t == topics[key].thread
         v == [tg[t] EXCEPT !.state = "open"]
     IN \/ Succeeds(t, v) /\ Goto("reopened", key) /\ UNCHANGED <<life, tables, memory, herd>>
        \/ /\ Gone(t)   \* forgotten; the save of the new topic's intent records it
           /\ UNCHANGED forum
           /\ topics' = Forget(topics, key) /\ UNCHANGED <<pending, dirty, disk>>
           /\ Goto("intent", key) /\ UNCHANGED <<life, memory, herd>>
        \/ ~Gone(t) /\ FailPolicy(t, v)
  /\ UNCHANGED env

Reopened == at = "reopened" /\ Recorded([topics[key] EXCEPT !.closed = FALSE], "refreshing")

(* What an edit makes of topic t: the given parts become the agent's.      *)
Shown(t, a, parts) ==
  [tg[t] EXCEPT !.status = IF "status" \in parts THEN a.status ELSE @,
                !.name = IF "name" \in parts THEN a.name ELSE @]
(* Diff: a rename sends the status again.                                  *)
Moved(e, a) == {part \in {"name", "status"} : e[part] # a[part] \/ e.name # a.name}

(* The live icon always, the name when it moved.                           *)
Refreshing ==
  /\ at = "refreshing"
  /\ LET t == topics[key].thread
         v == Shown(t, Mine(key), {"status"} \cup Moved(topics[key], Mine(key)))
     IN \/ Succeeds(t, v) /\ Goto("refreshed", key) /\ UNCHANGED <<life, tables, memory, herd>>
        \/ /\ Gone(t) /\ UNCHANGED forum
           /\ \/ /\ Saved(Forget(topics, key), pending) /\ Goto("intent", key)
                 /\ UNCHANGED <<life, memory, herd>>
              \/ SaveFails
        \/ ~Gone(t) /\ FailPolicy(t, v)
  /\ UNCHANGED env

Refreshed ==
  /\ at = "refreshed"
  /\ Recorded([topics[key] EXCEPT !.name = Mine(key).name, !.status = Mine(key).status], "none")

---------------------------------------------------------------------------
(* edit: the topic follows its agent.  A forced edit sends what the        *)
(* mapping believes is already there, and to a muted topic too.            *)

Forced == force /\ phase \in {"one", "live"}
EditDue ==
  /\ key \in Mapped(topics)
  /\ ~topics[key].muted \/ Forced
  /\ Differs(topics[key], Mine(key)) \/ (Forced /\ Live(topics[key]))

Edit ==
  /\ at = "edit"
  /\ IF key \in KeysOf(agents) /\ key \notin Mapped(topics) THEN Proceed("create")
     ELSE IF key \in KeysOf(agents) /\ EditDue /\ ~Blocked THEN Proceed("editing")
     ELSE Quit

Editing ==
  /\ at = "editing"
  /\ LET t == topics[key].thread
     IN Answered(t, Shown(t, Mine(key), IF Forced THEN {"name", "status"}
                                        ELSE Moved(topics[key], Mine(key))), "edited")

Edited ==
  /\ at = "edited"
  /\ Recorded([topics[key] EXCEPT !.name = Mine(key).name, !.status = Mine(key).status], "none")

---------------------------------------------------------------------------
(* exit, finish and close: the mark of a finished agent, then the closure. *)

Exit ==
  /\ at = "exit"
  /\ IF key \notin Mapped(topics) \/ Blocked THEN Quit
     ELSE IF topics[key].muted
       THEN Recorded([topics[key] EXCEPT !.status = Exited, !.closed = TRUE], "none")
       ELSE Proceed(IF Live(topics[key]) THEN "exiting" ELSE "close")

Finish ==
  /\ at = "finish"
  /\ IF key \notin Mapped(topics) \/ Blocked THEN Quit ELSE Proceed("exiting")

Exiting ==
  /\ at = "exiting"
  /\ LET t == topics[key].thread IN Answered(t, [tg[t] EXCEPT !.status = Exited], "exited")

ExitRecorded == at = "exited" /\ Recorded([topics[key] EXCEPT !.status = Exited], "close")

Close ==
  /\ at = "close"
  /\ IF key \notin Mapped(topics) \/ topics[key].closed \/ Blocked THEN Quit ELSE Proceed("closing")

Closing ==
  /\ at = "closing"
  /\ LET t == topics[key].thread IN Answered(t, [tg[t] EXCEPT !.state = "closed"], "closed")

Closed == at = "closed" /\ Recorded([topics[key] EXCEPT !.closed = TRUE], "none")

---------------------------------------------------------------------------
(* Sweep: the closed topics of exited agents are deleted, then forgotten.  *)

SweepStarts ==
  /\ up /\ phase = "idle" /\ ~Blocked /\ Stale(topics, now, MaxAge) # {}
  /\ phase' = "sweep" /\ left' = Stale(topics, now, MaxAge)
  /\ UNCHANGED <<at, key, made, batch, force, life, tables, memory, herd, forum, env>>

Deleting ==
  /\ at = "deleting"
  /\ LET t == topics[key].thread
         v == [tg[t] EXCEPT !.state = "deleted"]
     IN \/ Succeeds(t, v) /\ Goto("deleted", key)
        \/ Gone(t) /\ UNCHANGED forum /\ Goto("deleted", key)
        \/ Skipped(t, v) /\ Return
        \/ "migrated" \in Faults /\ UNCHANGED forum /\ Return
        \/ "timeout" \in Faults /\ MaybeEffect(t, v) /\ Over("idle", {})
        \/ Forbidden /\ Over("idle", {})   \* warned about, not fatal
  /\ UNCHANGED <<life, tables, memory, herd, env>>

Deleted ==
  /\ at = "deleted"
  /\ \/ Saved(Forget(topics, key), pending) /\ Return /\ UNCHANGED <<life, memory, herd>>
     \/ SaveFails
  /\ UNCHANGED <<forum, env>>

---------------------------------------------------------------------------
(* Handle: one registry event, from the channel or from a replay's         *)
(* snapshot.  An agent that came back under another key takes its topic    *)
(* along before anything is created; its plan is one that applies          *)
(* (FreshPlanApplies).                                                     *)

Left(live) == MoveSources(PlanReassociation(topics, live))

HandleEvent ==
  /\ up /\ at = "none" /\ phase \in {"one", "events"} /\ batch # <<>>
  /\ LET ev == Head(batch)
         k == ev.agent.key
         new == IF ev.kind = "gone" THEN topics ELSE Continued(topics, {ev.agent})
         away == IF ev.kind = "gone" THEN {k} ELSE Left({ev.agent})
     IN \/ /\ dirty \/ new # topics
           /\ SaveFails
        \/ /\ IF dirty \/ new # topics THEN Saved(new, pending) ELSE UNCHANGED tables
           /\ batch' = Tail(batch)
           /\ agents' = LET stay == {a \in agents : a.key \notin away}
                        IN IF ev.kind = "gone" THEN stay ELSE Put(stay, ev.agent)
           /\ LET quiet == ev.kind = "changed" /\ k \in Mapped(new) /\ Live(new[k])
              IN /\ deb' = (deb \ away) \cup (IF quiet THEN {k} ELSE {})
                 /\ at' = IF quiet THEN "none"
                          ELSE IF ev.kind = "gone" THEN "exit"
                          ELSE IF k \in Mapped(new) /\ Live(new[k]) THEN "edit" ELSE "create"
                 /\ key' = IF quiet THEN AnyKey ELSE k
                 /\ phase' = IF quiet /\ phase = "one" THEN "idle" ELSE phase
           /\ UNCHANGED <<made, left, force, due, rightsLost, life, herd>>
  /\ UNCHANGED <<forum, env>>

(* The loop takes an event, or the edit of a key whose timer has fired.    *)
Idle == up /\ phase = "idle"

TakeEvent ==
  /\ Idle /\ events # <<>>
  /\ batch' = <<Head(events)>> /\ events' = Tail(events) /\ phase' = "one"
  /\ UNCHANGED <<at, key, made, left, force, registry, life, tables, memory, forum, env>>

TimerFires ==
  /\ \E k \in deb : deb' = deb \ {k} /\ due' = due \cup {k}
  /\ UNCHANGED <<agents, rightsLost, life, tables, work, herd, forum, env>>

(* Mutant of TakeDue: the edit of a fired timer is lost.                   *)
TakeDueLost ==
  /\ Idle
  /\ \E k \in due : due' = due \ {k}
  /\ UNCHANGED <<agents, deb, rightsLost, life, tables, work, herd, forum, env>>

TakeDue ==
  /\ Idle
  /\ \E k \in due : due' = due \ {k} /\ at' = "edit" /\ key' = k
  /\ phase' = "one"
  /\ UNCHANGED <<made, batch, left, force, agents, deb, rightsLost, life, tables, herd, forum, env>>

---------------------------------------------------------------------------
(* The loops: a replay's events, the flush of the waiting edits, the pass. *)

InLoop(p) == up /\ phase = p /\ at = "none"
Enter(p, keys) ==
  /\ phase' = p /\ left' = keys /\ force' = (force /\ p # "idle")
  /\ UNCHANGED <<at, key, made, batch>>

FlushStarts ==
  /\ InLoop("events") /\ batch = <<>>
  /\ Enter("flush", deb) /\ deb' = {}
  /\ UNCHANGED <<agents, due, rightsLost, life, tables, herd, forum, env>>

FlushEnds ==
  /\ InLoop("flush") /\ left = {} /\ Enter("reconcile", {})
  /\ UNCHANGED <<life, tables, memory, herd, forum, env>>

(* Reconcile up to its loops.  Nothing at all happens while blocked, but   *)
(* for a save that is still owed.                                          *)
PassStarts ==
  /\ InLoop("reconcile")
  /\ LET once == DedupeThreads(topics)
         plan == PlanReassociation(once, registry)
         new == Continued(once, registry)
     IN \/ /\ dirty \/ (~Blocked /\ new # topics)
           /\ SaveFails
        \/ /\ Blocked
           /\ IF dirty THEN Saved(topics, pending) ELSE UNCHANGED tables
           /\ Enter("idle", {}) /\ UNCHANGED <<life, memory, herd>>
        \/ /\ ~Blocked
           /\ IF dirty \/ new # topics THEN Saved(new, pending) ELSE UNCHANGED tables
           /\ agents' = registry
           /\ deb' = deb \ MoveSources(plan)
           /\ Enter("orphans", Orphans(new, KeysOf(registry)))
           /\ UNCHANGED <<due, rightsLost, life, herd>>
  /\ UNCHANGED <<forum, env>>

(* The loops take their keys in some order, the code in the keys' order.   *)
NextInLoop ==
  /\ up /\ at = "none" /\ left # {} /\ phase \in {"flush", "orphans", "unclosed", "live", "sweep", "stop"}
  /\ \E k \in left :
       /\ left' = left \ {k} /\ key' = k
       /\ at' = CASE phase = "orphans"  -> "exit"
                  [] phase = "unclosed" -> "close"
                  [] phase = "sweep"    -> (IF k \in Mapped(topics) THEN "deleting" ELSE "none")
                  [] phase = "live"     -> (IF k \in Mapped(topics) /\ Live(topics[k])
                                              THEN "edit" ELSE "create")
                  [] OTHER              -> "edit"
       /\ deb' = IF phase = "orphans" \/ (phase = "live" /\ at' = "edit") THEN deb \ {k} ELSE deb
  /\ UNCHANGED <<phase, made, batch, force, agents, due, rightsLost, life, tables, herd, forum, env>>

LoopEnds ==
  /\ left = {}
  /\ \/ InLoop("orphans") /\ Enter("unclosed", Unclosed(topics))
     \/ InLoop("unclosed") /\ Enter("live", KeysOf(agents))
     \/ InLoop("live") /\ Enter("idle", {})
     \/ InLoop("sweep") /\ Enter("idle", {})
  /\ UNCHANGED <<life, tables, memory, herd, forum, env>>

---------------------------------------------------------------------------
(* Replay: a fresh snapshot, its events handled at once, whatever still    *)
(* waits in the registry's channel.                                        *)

ReplayStarts(forced) ==
  \/ \E W \in Worlds :
       /\ W = registry \/ ("herdr" \in Doings /\ steps < MaxSteps)
       /\ registry' = W /\ batch' = SnapshotEvents(registry, W)
       /\ steps' = IF W = registry THEN steps ELSE steps + 1
       /\ phase' = "events" /\ force' = forced
       /\ UNCHANGED <<at, key, made, left, events>>
  \/ "snapshot" \in Faults /\ UNCHANGED <<work, herd, steps>>

CatchUp ==
  /\ Idle /\ wake # "none" /\ wake' = "none"
  /\ ReplayStarts(wake = "resync")
  /\ UNCHANGED <<life, tables, memory, forum, held, now>>

---------------------------------------------------------------------------
(* Telegram updates: an operator closed, reopened or renamed a topic, an   *)
(* administrator changed the bot's right.                                  *)

Took == Idle /\ inbox # <<>> /\ inbox' = Tail(inbox) /\ UNCHANGED <<tg, home, strays, canManage>>
Owner(t) == KeyForThread(topics, t)

(* A one-step handler that only changes an entry.                          *)
SavedOnly(new) ==
  \/ Saved(new, pending) /\ UNCHANGED <<life, work, memory, herd>>
  \/ SaveFails

OnTopicClosed ==
  /\ Took /\ Head(inbox).kind = "closed"
  /\ LET t == Head(inbox).thread
         k == Owner(t)
     IN IF Holders(topics, t) = {} THEN UNCHANGED <<life, tables, memory, work, herd>>
        ELSE IF Live(topics[k]) THEN SavedOnly(Touch(k, [topics[k] EXCEPT !.muted = TRUE]))
        ELSE SavedOnly(Touch(k, [topics[k] EXCEPT !.closed = TRUE]))
  /\ UNCHANGED env

OnTopicReopened ==
  /\ Took /\ Head(inbox).kind = "reopened"
  /\ LET t == Head(inbox).thread
         k == Owner(t)
     IN IF Holders(topics, t) = {} THEN UNCHANGED <<life, tables, memory, work, herd>>
        ELSE \/ /\ Saved(Touch(k, [topics[k] EXCEPT !.muted = FALSE, !.closed = FALSE]), pending)
                /\ phase' = "one" /\ key' = k
                /\ IF k \in KeysOf(agents)
                     THEN /\ deb' = deb \ {k}
                          /\ at' = IF Live(topics[k]) THEN "edit" ELSE "revive"
                          /\ force' = Live(topics[k])
                     ELSE at' = "finish" /\ UNCHANGED <<deb, force>>
                /\ UNCHANGED <<made, batch, left, agents, due, rightsLost, life, herd>>
             \/ SaveFails
  /\ UNCHANGED env

(* The name the operator typed is recorded as the topic's.  It says        *)
(* nothing new, and an edit will restore the canonical name; or Herdr      *)
(* takes it, and shows it, or a name of its own, in the snapshot the       *)
(* daemon asks for (a tab's rename is also settled by an edit); or Herdr   *)
(* refuses, and nothing is recorded.                                       *)
Typed(k, name) == Touch(k, [topics[k] EXCEPT !.name = name])

Renames(k) ==
  /\ \E n \in Name, a \in registry :
       /\ n = Head(inbox).name \/ "rename" \in Faults
       /\ a.key = k /\ registry' = Put(registry, [a EXCEPT !.name = n]) /\ registry' \in Worlds
       /\ agents' = Put(agents, [Mine(k) EXCEPT !.name = n])
  /\ events' = events \o SnapshotEvents(registry, registry') /\ Len(events') <= MaxEvents
  /\ deb' \in {deb, deb \cup {k}}

OnTopicRenamed ==
  /\ Took /\ Head(inbox).kind = "renamed"
  /\ LET t == Head(inbox).thread
         k == Owner(t)
         known == Holders(topics, t) # {} /\ k \in KeysOf(agents) /\ Live(topics[k])
     IN \/ /\ ~known \/ "rename" \in Faults
           /\ UNCHANGED <<life, tables, memory, work, herd>>
        \/ /\ known /\ Saved(Typed(k, Head(inbox).name), pending)
           /\ \/ deb' = deb \cup {k} /\ UNCHANGED <<agents, herd>>
              \/ Renames(k)
           /\ UNCHANGED <<due, rightsLost, life, work>>
        \/ known /\ SaveFails
  /\ UNCHANGED env

OnRightsChanged ==
  /\ Took /\ Head(inbox).kind = "rights"
  /\ rightsLost' = ~Head(inbox).granted
  /\ IF rightsLost /\ Head(inbox).granted THEN ReplayStarts(FALSE)
     ELSE UNCHANGED <<work, herd, steps>>
  /\ UNCHANGED <<life, tables, agents, deb, due, held, wake, now>>

(* Dashboard.Repin clears the id of a message Telegram no longer has and   *)
(* only logs the failure of that save.                                     *)
ClearDashboard ==
  /\ Idle /\ DiskFaults /\ ~dirty /\ dirty' = TRUE
  /\ UNCHANGED <<topics, pending, disk, life, memory, work, herd, forum, env>>

---------------------------------------------------------------------------
(* The process starts, stops and dies.                                     *)

Start ==
  /\ ~up /\ up' = TRUE /\ reason' = "running"
  /\ rightsLost' \in {~canManage, FALSE}   \* FALSE too when the check itself fails
  /\ \/ \E W \in Worlds : registry' = W /\ phase' = "reconcile"
     \/ "snapshot" \in Faults /\ registry' = {} /\ phase' = "idle"
  /\ UNCHANGED <<tables, agents, deb, due, at, key, made, batch, left, force, events, forum, env>>

Does(what) == what \in Doings /\ steps < MaxSteps /\ steps' = steps + 1

(* A crash loses the updates fetched and not handled, or finds them again. *)
Crash ==
  /\ up /\ Does("crash") /\ Fatal("crash")
  /\ inbox' \in {inbox, <<>>}
  /\ UNCHANGED <<tg, home, strays, canManage, held, wake, now>>

StopStarts ==
  /\ Idle /\ Does("stop")
  /\ Enter("stop", deb) /\ deb' = {}
  /\ UNCHANGED <<agents, due, rightsLost, life, tables, herd, forum, held, wake, now>>

StopEnds ==
  /\ InLoop("stop") /\ left = {} /\ Fatal("stopped")
  /\ UNCHANGED <<forum, env>>

---------------------------------------------------------------------------
(* What the world does by itself.                                          *)

AgentsChange ==
  /\ up /\ Does("herdr")
  /\ \E W \in Worlds \ {registry} :
       /\ registry' = W /\ events' = events \o SnapshotEvents(registry, W)
       /\ Len(events') <= MaxEvents
  /\ UNCHANGED <<life, tables, memory, work, forum, held, wake, now>>

Tells(u) == Len(inbox) < MaxInbox /\ inbox' = Append(inbox, u)
Hand(t, v, u) == tg' = [tg EXCEPT ![t] = v] /\ Tells(u)

OperatorActs ==
  /\ \E t \in Thread :
       \/ /\ Does("close") /\ tg[t].state = "open"
          /\ Hand(t, [tg[t] EXCEPT !.state = "closed"], [kind |-> "closed", thread |-> t])
       \/ /\ Does("reopen") /\ tg[t].state = "closed"
          /\ Hand(t, [tg[t] EXCEPT !.state = "open"], [kind |-> "reopened", thread |-> t])
       \/ /\ Does("rename") /\ Exists(t)
          /\ \E n \in Name \ {tg[t].name} :
               Hand(t, [tg[t] EXCEPT !.name = n], [kind |-> "renamed", thread |-> t, name |-> n])
       \/ /\ Does("delete") /\ Exists(t)   \* Telegram does not tell the bot
          /\ tg' = [tg EXCEPT ![t].state = "deleted"] /\ inbox' = inbox
  /\ UNCHANGED <<life, tables, memory, work, herd, home, strays, canManage, held, wake, now>>

RightChanges ==
  /\ Does("right") /\ canManage' = ~canManage
  /\ Tells([kind |-> "rights", granted |-> canManage'])
  /\ UNCHANGED <<life, tables, memory, work, herd, tg, home, strays, held, wake, now>>

(* Sync is switched off or quiet begins; when it ends the loop is asked to *)
(* catch up, with a resync after sync was off.                             *)
HoldChanges ==
  /\ up /\ Does("hold") /\ held' = ~held
  /\ wake' \in IF held THEN {IF wake = "resync" THEN wake ELSE "replay", "resync"}
                       ELSE {wake, IF wake = "resync" THEN wake ELSE "none"}
  /\ UNCHANGED <<life, tables, memory, work, herd, forum, now>>

AskResync ==
  /\ up /\ Does("resync") /\ wake' = "resync"
  /\ UNCHANGED <<life, tables, memory, work, herd, forum, held, now>>

DaysPass ==
  /\ Does("day") /\ now' \in (now + 1)..MaxDay
  /\ UNCHANGED <<life, tables, memory, work, herd, forum, held, wake>>

---------------------------------------------------------------------------
Operation ==
  \/ Create \/ Intent \/ Creating \/ CreateRepeated \/ LinkTopic \/ ClearIntent
  \/ Revive \/ Reopening \/ Reopened \/ Refreshing \/ Refreshed
  \/ Edit \/ Editing \/ Edited
  \/ Exit \/ Finish \/ Exiting \/ ExitRecorded \/ Close \/ Closing \/ Closed
  \/ Deleting \/ Deleted
Loop ==
  \/ HandleEvent \/ FlushStarts \/ FlushEnds \/ PassStarts \/ NextInLoop \/ LoopEnds \/ StopEnds
Take ==
  \/ TakeEvent \/ TakeDue \/ CatchUp \/ SweepStarts
  \/ OnTopicClosed \/ OnTopicReopened \/ OnTopicRenamed \/ OnRightsChanged
World ==
  \/ ClearDashboard \/ Crash \/ StopStarts \/ AgentsChange \/ OperatorActs
  \/ RightChanges \/ HoldChanges \/ AskResync \/ DaysPass

Next == Operation \/ Loop \/ Take \/ TimerFires \/ Start \/ World

Spec == Init /\ [][Next]_vars

(* The goroutines are scheduled, every call returns (the queue bounds its  *)
(* wait), timers fire and the supervisor starts the daemon again.  Nothing *)
(* is asked of the operators, of Telegram's answers or of the disk.        *)
FairSpec == Spec /\ WF_vars(Operation \/ Loop \/ Take \/ TimerFires \/ Start)

---------------------------------------------------------------------------
Tables == [Key -> {e \in Entry : e.thread \in 0..MaxThread}]

LifeOK ==
  /\ up \in BOOLEAN
  /\ reason \in {"new", "running", "stopped", "crash", "save", "forbidden", "create", "intent"}
TablesOK ==
  /\ topics \in Tables /\ pending \subseteq Key /\ dirty \in BOOLEAN
  /\ disk \in [topics : Tables, pending : SUBSET Key]
MemoryOK == agents \subseteq Agent /\ deb \subseteq Key /\ due \subseteq Key /\ rightsLost \in BOOLEAN
WorkOK ==
  /\ phase \in Phases /\ at \in Steps /\ key \in Key /\ made \in 0..MaxThread
  /\ batch \in Seq(Event) /\ left \subseteq Key /\ force \in BOOLEAN
HerdOK == registry \in Worlds \cup {{}} /\ events \in Seq(Event)
ForumTyped ==
  /\ tg \in [Thread -> TopicState] /\ home \in [Thread -> Key] /\ strays \subseteq Thread
  /\ canManage \in BOOLEAN /\ inbox \in Seq(Update)
EnvOK == held \in BOOLEAN /\ wake \in {"none", "replay", "resync"} /\ now \in Nat /\ steps \in Nat

TypeOK == LifeOK /\ TablesOK /\ MemoryOK /\ WorkOK /\ HerdOK /\ ForumTyped /\ EnvOK

(* Whatever crashes, fails or is lost, a topic the bot made is known to    *)
(* the mapping file or its agent's creation is marked there as unresolved; *)
(* the only others are the topics of requests the call queue repeated.     *)
NoLostTopic ==
  \A t \in Thread :
    Exists(t) => t \in Linked(disk.topics) \/ home[t] \in disk.pending \/ t \in strays

(* The mark stops the second creation: an agent never has two topics the   *)
(* mapping does not know.                                                  *)
OneUnknownTopic ==
  \A t, u \in Thread :
    /\ Exists(t) /\ t \notin Linked(disk.topics) \cup strays
    /\ Exists(u) /\ u \notin Linked(disk.topics) \cup strays
    /\ home[t] = home[u]
    => t = u

(* No two agents share a topic, in memory or on disk, so that an update    *)
(* from a topic names one agent and DedupeThreads has nothing to drop.     *)
OneEntryPerTopic == Single(topics) /\ Single(disk.topics)

(* The file is never behind the memory: what the loop has recorded, a      *)
(* crash does not lose.  The one exception is a topic found deleted, whose *)
(* entry is dropped with the save of the intent.  (What Telegram answered  *)
(* and the loop has not recorded yet is NoLostTopic's concern.)            *)
MemoryIsDurable ==
  at # "intent" => disk = [topics |-> topics, pending |-> pending]

(* The parts of the inductive invariant.  Only a running loop is inside an *)
(* operation; a step on an agent or a topic has one; a creation is under   *)
(* way for an agent without a topic, and from its mark on is marked.       *)
Asking == {"intent", "creating", "link", "rejected", "migrated"}
StepsOnTopics == {"revive", "reopening", "reopened", "refreshing", "refreshed", "editing", "edited",
                  "exiting", "exited", "closing", "closed", "deleting", "deleted"}
StepsOnAgents == {"create", "intent", "creating", "link", "revive", "reopening", "reopened",
                  "refreshing", "refreshed", "editing", "edited"}

StepOK ==
  /\ ~up => phase = "idle"
  /\ phase = "idle" => at = "none"
  /\ at \in StepsOnAgents => key \in KeysOf(agents)
  /\ at \in StepsOnTopics => key \in Mapped(topics)
  /\ at = "create" => key \notin Mapped(topics) \/ ~Live(topics[key])
  /\ at \in Asking => key \notin Mapped(topics)
  /\ at \in Asking \ {"intent"} => key \in pending
  /\ at = "deleted" => Gone(topics[key].thread)
  /\ phase = "live" => left \subseteq KeysOf(agents)

(* The file and the memory differ at one step only, by a topic that is     *)
(* gone.                                                                   *)
DiskOK ==
  /\ disk.pending = pending
  /\ \/ disk.topics = topics
     \/ /\ at = "intent" /\ topics = Forget(disk.topics, key)
        /\ disk.topics[key].thread # 0 /\ Gone(disk.topics[key].thread)

(* While a creation is under way its agent has no topic the mapping does   *)
(* not know but the one just made.                                         *)
Known(t) == t \in Linked(disk.topics) \cup strays
ForumOK ==
  /\ \A t \in Linked(disk.topics) : tg[t].state # "unused"
  /\ at \in {"creating", "rejected", "migrated"} =>
       \A t \in Thread : Exists(t) /\ home[t] = key => Known(t)
  /\ at = "link" =>
       /\ made \in Thread /\ made \notin Linked(disk.topics) /\ tg[made].state # "unused"
       /\ home[made] = key
       /\ \A t \in Thread : Exists(t) /\ home[t] = key => Known(t) \/ t = made

IInv == StepOK /\ DiskOK /\ ForumOK /\ OneEntryPerTopic /\ NoLostTopic /\ OneUnknownTopic

(* The mapping's picture of the forum and the agents' own.                 *)
Shows(k, a) ==
  /\ k \in Mapped(topics) /\ Live(topics[k]) /\ ~topics[k].closed
  /\ topics[k].name = a.name /\ topics[k].status = a.status
  /\ tg[topics[k].thread] = [state |-> "open", name |-> a.name, status |-> a.status]
Finished(k) ==
  /\ ~Live(topics[k]) /\ topics[k].closed
  /\ tg[topics[k].thread].state = "closed" /\ tg[topics[k].thread].status = Exited
Mirrors(S) ==
  /\ \A a \in S : Shows(a.key, a)
  /\ \A k \in Mapped(topics) \ KeysOf(S) : Finished(k)

(* A topic never passes from an agent of one known session to an agent of  *)
(* another: by a listing, by its events, by a crash and a restart.         *)
NeverInherited ==
  [][\A k \in Mapped(topics), l \in Mapped(topics') :
       topics[k].thread = topics'[l].thread => ~ConflictsWith(k, l)]_vars

(* Only the operator's own hand lifts a mute: an exit, a new key for the   *)
(* agent, a crash and a restart keep it with the topic.                    *)
MutedIn(tt, t) == \E k \in Key : tt[k].thread = t /\ tt[k].muted
MuteKept ==
  [][\A t \in Linked(topics) \cap Linked(topics') :
       MutedIn(topics, t) =>
         \/ MutedIn(topics', t)
         \/ inbox # <<>> /\ Head(inbox) = [kind |-> "reopened", thread |-> t]]_vars

(* The mapping file lets go of a topic only when Telegram has deleted it.  *)
ForgottenIsDeleted ==
  [][\A t \in Linked(disk.topics) \ Linked(disk.topics') : tg[t].state = "deleted"]_vars

(* Once the world is quiet the forum shows exactly the agents there are.   *)
Converges == <>[](up /\ ~Blocked => Mirrors(registry))

(* What the documentation says: live agents are never candidates of the   *)
(* sweep.                                                                  *)
LiveNeverSwept == at = "deleting" => key \notin KeysOf(agents)
=============================================================================
