------------------------------ MODULE AgentFeed -----------------------------
(***************************************************************************)
(* How the daemon knows which agents there are: the subscription to        *)
(* Herdr's events (adapters/herdr stream.go), the calls that list the      *)
(* agents (call.go, gateway.go), and the registry that puts the two        *)
(* together and tells the daemon (app/registry.go).                        *)
(*                                                                         *)
(* Herdr writes notices on every connection that is subscribed; the        *)
(* stream reads one connection, and for a while the one it replaces, and   *)
(* hands the notices to the registry through a channel.  A listing takes   *)
(* three calls, so that agents and labels are of different moments, and    *)
(* it is applied later still.  The registry's own goroutine does one       *)
(* thing at a time, but the daemon takes snapshots of its own.             *)
(*                                                                         *)
(* The length of a back-off, titles and revisions are left out; a label    *)
(* stands for all the names Herdr reports in a listing only.               *)
(***************************************************************************)
EXTENDS AgentEvents

CONSTANTS Agents,        \* what an agent is where: records [key, cwd, kind]
          Worlds,        \* what happens, and how often
          EventBuffer,   \* notices that wait for the registry
          FeedBuffer     \* events that wait for the daemon

Nowhere == [up |-> FALSE, watch |-> {}, line |-> <<>>]

(* A world: how often Herdr's agents change, are renamed, the connection   *)
(* drops, a call or a subscription fails, the daemon takes a snapshot;     *)
(* whether a handover may outlast its grace; who may run, and who runs at  *)
(* first.  Herdr runs one agent in a pane.                                 *)
World == [acts: Nat, renames: Nat, drops: Nat, failures: Nat, replays: Nat, slow: BOOLEAN,
          agents: SUBSET Agents, first: SUBSET Agents]
ASSUME FeedAssumption ==
  /\ {EventBuffer, FeedBuffer} \subseteq Nat \ {0} /\ LiveStatus # {} /\ Name # {}
  /\ Agents \subseteq [key: Key, cwd: Cwd \cup {Unknown}, kind: Kind]
  /\ Worlds \subseteq World
  /\ \A w \in Worlds : /\ IsFiniteSet(w.first)
                       /\ \A a, b \in w.first : a.key.pane = b.key.pane => a = b

Panes == {k.pane : k \in Key}
Callers == {"registry", "daemon"}

VARIABLES
  world,     \* what may still happen
  herdr,     \* the agents that run: key, status, directory, kind
  label,     \* what Herdr calls each pane
  conn, old, \* the connection the stream reads, and the one it hands over from
  stream,    \* where the stream is, the panes it shall watch, its wake-ups
  channel,   \* notices on their way to the registry
  reg,       \* the registry: its agents and the keys that are retired
  loop,      \* its goroutine: what it does, timers, events it has to send
  call,      \* the listing of each caller
  feed,      \* events on their way to the daemon
  daemon,    \* what the daemon does, and the agents it was told of
  past       \* for the properties: keys that ran, keys reported gone, panes
             \* whose last change was pushed, statuses last emitted, whether a
             \* connection was lost in silence and the daemon took a snapshot
vars == <<world, herdr, label, conn, old, stream, channel, reg, loop, call, feed, daemon, past>>

Named(a) == [key |-> a.key, name |-> label[a.key.pane], status |-> a.status, cwd |-> a.cwd, kind |-> a.kind]
Truth == {Named(a) : a \in herdr}
InPane(S, p) == {a \in S : a.key.pane = p}
PanesOf(S) == {a.key.pane : a \in S}

NoKey == [pane |-> Unknown, term |-> Unknown, digest |-> Unknown]
Notice(kind, pane, key, status, gone) ==
  [kind |-> kind, pane |-> pane, key |-> key, status |-> status, gone |-> gone]

---------------------------------------------------------------------------
(* Herdr.  A change of status is pushed to those who watch the pane, the   *)
(* rest to everyone who is subscribed.                                     *)

Hears(c, n) == c.up /\ (n.kind = "status" => n.pane \in c.watch)
Heard(c, n) == IF Hears(c, n) THEN [c EXCEPT !.line = Append(@, n)] ELSE c
Push(n) == conn' = Heard(conn, n) /\ old' = Heard(old, n)

Acts == world.acts > 0 /\ world' = [world EXCEPT !.acts = @ - 1]
Mine == <<stream, channel, reg, loop, call, feed, daemon>>

Appear(a) ==
  /\ a \in world.agents /\ a.key \notin past.ran /\ InPane(herdr, a.key.pane) = {}
  /\ Acts
  /\ \E s \in LiveStatus : herdr' = herdr \cup {[key |-> a.key, status |-> s, cwd |-> a.cwd, kind |-> a.kind]}
  /\ Push(Notice("detected", a.key.pane, NoKey, Unknown, {}))
  /\ past' = [past EXCEPT !.ran = @ \cup {a.key}, !.pushed = @ \ {a.key.pane}]
  /\ UNCHANGED <<label, Mine>>

Leave(a, kind) ==
  /\ a \in herdr /\ kind \in {"released", "closed"}
  /\ Acts /\ herdr' = herdr \ {a}
  /\ Push(Notice(kind, a.key.pane, NoKey, Unknown, {a.key}))
  /\ past' = [past EXCEPT !.pushed = @ \ {a.key.pane}]
  /\ UNCHANGED <<label, Mine>>

(* The agent of a pane is another one at once, or has another session; the *)
(* notice is one of the pane, with the new key, about the old one.         *)
Replace(a, b) ==
  /\ a \in herdr /\ b \in world.agents /\ b.key.pane = a.key.pane /\ b.key \notin past.ran
  /\ Acts
  /\ herdr' = (herdr \ {a}) \cup {[key |-> b.key, status |-> a.status, cwd |-> b.cwd, kind |-> b.kind]}
  /\ Push(Notice("updated", a.key.pane, b.key, a.status, {a.key}))
  /\ past' = [past EXCEPT !.ran = @ \cup {b.key}, !.pushed = @ \ {a.key.pane}]
  /\ UNCHANGED <<label, Mine>>

Change(a, s) ==
  /\ a \in herdr /\ s # a.status
  /\ Acts /\ herdr' = (herdr \ {a}) \cup {[a EXCEPT !.status = s]}
  /\ LET n == Notice("status", a.key.pane, NoKey, s, {})
     IN Push(n) /\ past' = [past EXCEPT !.pushed =
                              IF Hears(conn, n) \/ Hears(old, n) THEN @ \cup {a.key.pane} ELSE @ \ {a.key.pane}]
  /\ UNCHANGED <<label, Mine>>

Rename(p, n) ==
  /\ label[p] # n /\ world.renames > 0
  /\ world' = [world EXCEPT !.renames = @ - 1] /\ label' = [label EXCEPT ![p] = n]
  /\ Push(Notice("renamed", p, NoKey, Unknown, {}))
  /\ UNCHANGED <<herdr, past, Mine>>

(* Herdr goes away for a moment, with what nobody has read yet, or a part  *)
(* of it.                                                                  *)
Drop ==
  /\ world.drops > 0 /\ conn.up
  /\ world' = [world EXCEPT !.drops = @ - 1]
  /\ \E m \in 0..Len(conn.line), n \in 0..Len(old.line) :
       /\ conn' = [up |-> FALSE, watch |-> conn.watch, line |-> SubSeq(conn.line, 1, m)]
       /\ old' = [up |-> FALSE, watch |-> old.watch, line |-> SubSeq(old.line, 1, n)]
  /\ past' = [past EXCEPT !.pushed = {}]
  /\ UNCHANGED <<herdr, label, Mine>>

---------------------------------------------------------------------------
(* The stream: Stream.Run, serve, drainOld.                                *)

Outside == <<herdr, label, reg, loop, call, feed, daemon>>
Fails == world.failures > 0 /\ world' = [world EXCEPT !.failures = @ - 1]

Emit(n) ==
  /\ Len(channel) < EventBuffer
  /\ channel' = Append(channel, n)
  /\ past' = IF n.kind = "status" THEN [past EXCEPT !.emitted[n.pane] = n.status] ELSE past

SubscribedAsBefore == [up |-> TRUE, watch |-> conn.watch, line |-> <<>>]
Subscribed == [up |-> TRUE, watch |-> stream.panes, line |-> <<>>]

Dial ==
  /\ stream.at = "dial"
  /\ \/ conn' = Subscribed /\ stream' = [stream EXCEPT !.at = "serve"] /\ UNCHANGED world
     \/ Fails /\ stream' = [stream EXCEPT !.at = "pause"] /\ UNCHANGED conn
  /\ UNCHANGED <<old, channel, past, Outside>>

(* The panes to watch have changed: a new connection takes over, once it   *)
(* is up; when it does not come up the old one goes on, and a timer asks   *)
(* again.                                                                  *)
Resubscribe ==
  /\ stream.at = "serve" /\ stream.changed
  /\ \/ /\ conn' = Subscribed /\ old' = conn
        /\ stream' = [stream EXCEPT !.at = "drain", !.changed = FALSE]
        /\ UNCHANGED world
     \/ Fails /\ stream' = [stream EXCEPT !.changed = FALSE, !.retry = TRUE] /\ UNCHANGED <<conn, old>>
  /\ UNCHANGED <<channel, past, Outside>>

Retry ==
  /\ stream.retry
  /\ stream' = [stream EXCEPT !.retry = FALSE, !.changed = TRUE]
  /\ UNCHANGED <<world, conn, old, channel, past, Outside>>

Read ==
  /\ stream.at = "serve" /\ conn.line # <<>>
  /\ Emit(Head(conn.line)) /\ conn' = [conn EXCEPT !.line = Tail(@)]
  /\ UNCHANGED <<world, old, stream, Outside>>

DrainRead ==
  /\ stream.at = "drain" /\ old.line # <<>>
  /\ Emit(Head(old.line)) /\ old' = [old EXCEPT !.line = Tail(@)]
  /\ UNCHANGED <<world, conn, stream, Outside>>

DrainSkipped ==
  /\ stream.at = "drain"
  /\ old' = Nowhere /\ stream' = [stream EXCEPT !.at = "serve"]
  /\ UNCHANGED <<world, conn, channel, past, Outside>>

(* The grace is over, or the old connection is at its end.                 *)
DrainEnds ==
  /\ stream.at = "drain" /\ (old.line = <<>> \/ world.slow)
  /\ old' = Nowhere /\ stream' = [stream EXCEPT !.at = "serve"]
  /\ UNCHANGED <<world, conn, channel, past, Outside>>

(* The connection has failed: the registry is told before there is a new   *)
(* subscription.                                                           *)
Reset ==
  /\ stream.at = "serve" /\ ~conn.up /\ conn.line = <<>>
  /\ Emit(Notice("reset", Unknown, NoKey, Unknown, {}))
  /\ conn' = Nowhere /\ stream' = [stream EXCEPT !.at = "pause"]
  /\ UNCHANGED <<world, old, Outside>>

Pause ==
  /\ stream.at = "pause"
  /\ stream' = [stream EXCEPT !.at = "dial"]
  /\ UNCHANGED <<world, conn, old, channel, past, Outside>>

Stream == Dial \/ Resubscribe \/ Retry \/ Read \/ DrainRead \/ DrainEnds \/ Reset \/ Pause

---------------------------------------------------------------------------
(* A listing and what the registry makes of it: ListAgents, Snapshot.      *)

NoCall == [at |-> "none", agents |-> {}]
Others == <<herdr, label, conn, old, channel>>

Ends(c) == [call EXCEPT ![c] = NoCall]
Sends(c, events) ==
  IF c = "registry" THEN loop' = [loop EXCEPT !.at = "idle", !.events = events] /\ UNCHANGED daemon
                    ELSE daemon' = [daemon EXCEPT !.at = "dispatch", !.events = events] /\ UNCHANGED loop

List(c) ==
  /\ call[c].at = "list"
  /\ call' = [call EXCEPT ![c] = [at |-> "labels", agents |-> herdr]]
  /\ UNCHANGED <<world, stream, reg, loop, feed, daemon, past, Others>>

Labels(c) ==
  /\ call[c].at = "labels"
  /\ call' = [call EXCEPT ![c] = [at |-> "apply", agents |-> {Named(a) : a \in @.agents}]]
  /\ UNCHANGED <<world, stream, reg, loop, feed, daemon, past, Others>>

(* A call whose second dial fails too, whose answer is lost or late: the   *)
(* listing fails, and the snapshot with it.                                *)
CallFails(c) ==
  /\ call[c].at \in {"list", "labels"}
  /\ Fails /\ call' = Ends(c) /\ Sends(c, <<>>)
  /\ UNCHANGED <<stream, reg, feed, past, Others>>

(* A listing brings every key back that it lists, and tells what differs   *)
(* from what the registry had, also of agents whose keys were retired.     *)
KnownVisible == {a \in reg.agents : a.key \notin reg.retired}
Known == reg.agents

ApplySnapshot(c) ==
  /\ call[c].at = "apply"
  /\ reg' = [agents |-> call[c].agents, retired |-> {}]
  /\ call' = [call EXCEPT ![c].at = "watch"]
  /\ LET events == SnapshotEvents(Known, call[c].agents)
     IN IF c = "registry" THEN loop' = [loop EXCEPT !.events = events] /\ UNCHANGED daemon
                          ELSE daemon' = [daemon EXCEPT !.events = events] /\ UNCHANGED loop
  /\ UNCHANGED <<world, stream, feed, past, Others>>

(* SetPanes: the stream is woken when the set is another one.              *)
Watch(c) ==
  /\ call[c].at = "watch"
  /\ LET panes == PanesOf(call[c].agents)
     IN stream' = [stream EXCEPT !.panes = panes, !.changed = @ \/ panes # stream.panes]
  /\ call' = Ends(c)
  /\ IF c = "registry" THEN Sends(c, loop.events) ELSE Sends(c, daemon.events)
  /\ UNCHANGED <<world, reg, feed, past, Others>>

Listing(c) == List(c) \/ Labels(c) \/ CallFails(c) \/ ApplySnapshot(c) \/ Watch(c)

---------------------------------------------------------------------------
(* The registry's goroutine: Registry.Run, Apply.                          *)

Asked(l) == [l EXCEPT !.at = "snapshot", !.coalesce = FALSE]
AsksNow == loop' = Asked(loop) /\ call' = [call EXCEPT !["registry"].at = "list"]
Ready == daemon.at # "start" /\ loop.at = "idle" /\ loop.events = <<>>

Visible == {a \in reg.agents : a.key \notin reg.retired}
Retire(p) == {a.key : a \in InPane(reg.agents, p)}

(* What a notice changes in the registry; no change is <<>>, a change of   *)
(* an agent is told.                                                       *)
Updated(n) ==
  CASE n.kind = "status" -> {[a EXCEPT !.status = n.status] : a \in InPane(Visible, n.pane)}
    [] n.kind = "updated" -> {[a EXCEPT !.status = n.status] : a \in {b \in Visible : b.key = n.key}}
    [] OTHER -> {}

Replaced(n) == n.kind = "updated" /\ n.key \notin KeysOf(reg.agents)
RetiresLeft(n) == n.kind \in {"closed", "released"}
Retires(n) == n.kind \in {"closed", "released"} \/ Replaced(n)

Structural(n) ==
  \/ n.kind \in {"closed", "released", "detected", "renamed"}
  \/ n.kind \in {"status", "updated"} /\ Updated(n) = {}

Apply(n) ==
  LET changed == Updated(n)
  IN /\ reg' = [agents |-> {a \in reg.agents : a.key \notin KeysOf(changed)} \cup changed,
                retired |-> reg.retired \cup (IF Retires(n) THEN Retire(n.pane) ELSE {})]
     /\ loop' = [loop EXCEPT !.coalesce = @ \/ Structural(n),
                             !.events = EventsOf("changed", changed \ reg.agents)]
     /\ past' = [past EXCEPT !.told = @ \cup n.gone]

Take ==
  /\ Ready /\ channel # <<>>
  /\ channel' = Tail(channel)
  /\ \/ Head(channel).kind = "reset" /\ AsksNow /\ UNCHANGED <<reg, past>>
     \/ Head(channel).kind # "reset" /\ Apply(Head(channel)) /\ UNCHANGED call
  /\ UNCHANGED <<world, herdr, label, conn, old, stream, feed, daemon>>

(* The coalescing timer, the interval, or a request of the daemon.         *)
Snapshot(why) ==
  /\ Ready /\ why \in {"coalesce", "interval"} /\ (why = "coalesce" => loop.coalesce)
  /\ AsksNow
  /\ UNCHANGED <<world, herdr, label, conn, old, stream, channel, reg, feed, daemon, past>>

Tell ==
  /\ loop.at = "idle" /\ loop.events # <<>> /\ Len(feed) < FeedBuffer
  /\ feed' = Append(feed, Head(loop.events)) /\ loop' = [loop EXCEPT !.events = Tail(@)]
  /\ UNCHANGED <<world, herdr, label, conn, old, stream, channel, reg, call, daemon, past>>

---------------------------------------------------------------------------
(* The daemon: its first snapshot, its loop, its replays.                  *)

Hear(S, e) ==
  LET rest == {a \in S : a.key # e.agent.key}
  IN IF e.kind = "gone" THEN rest ELSE rest \cup {e.agent}

Dispatch ==
  \/ /\ daemon.at = "dispatch"
     /\ daemon' = IF daemon.events = <<>> THEN [daemon EXCEPT !.at = "idle"]
                  ELSE [daemon EXCEPT !.events = Tail(@), !.seen = Hear(@, Head(daemon.events))]
     /\ UNCHANGED <<world, herdr, label, conn, old, stream, channel, reg, loop, call, feed, past>>
  \/ /\ daemon.at = "idle" /\ feed # <<>>
     /\ daemon' = [daemon EXCEPT !.seen = Hear(@, Head(feed))] /\ feed' = Tail(feed)
     /\ UNCHANGED <<world, herdr, label, conn, old, stream, channel, reg, loop, call, past>>

Replay ==
  /\ daemon.at = "idle" /\ world.replays > 0
  /\ world' = [world EXCEPT !.replays = @ - 1]
  /\ daemon' = [daemon EXCEPT !.at = "replay"]
  /\ call' = [call EXCEPT !["daemon"].at = "list"]
  /\ past' = [past EXCEPT !.replayed = TRUE]
  /\ UNCHANGED <<herdr, label, conn, old, stream, channel, reg, loop, feed>>

---------------------------------------------------------------------------
Init ==
  /\ world \in Worlds
  /\ herdr = {[key |-> a.key, status |-> CHOOSE s \in LiveStatus : TRUE, cwd |-> a.cwd, kind |-> a.kind] : a \in world.first}
  /\ label = [p \in Panes |-> CHOOSE n \in Name : TRUE]
  /\ conn = Nowhere /\ old = Nowhere
  /\ stream = [at |-> "dial", panes |-> {}, changed |-> FALSE, retry |-> FALSE]
  /\ channel = <<>> /\ feed = <<>>
  /\ reg = [agents |-> {}, retired |-> {}]
  /\ loop = [at |-> "idle", coalesce |-> FALSE, events |-> <<>>]
  /\ call = [c \in Callers |-> IF c = "daemon" THEN [NoCall EXCEPT !.at = "list"] ELSE NoCall]
  /\ daemon = [at |-> "start", events |-> <<>>, seen |-> {}]
  /\ past = [ran |-> KeysOf(world.first), told |-> {}, pushed |-> {}, emitted |-> [p \in Panes |-> Unknown],
             replayed |-> FALSE]

Herdr ==
  \/ \E a \in Agents : Appear(a)
  \/ \E a \in herdr : \/ \E kind \in {"released", "closed"} : Leave(a, kind)
                      \/ \E b \in Agents : Replace(a, b)
                      \/ \E s \in LiveStatus : Change(a, s)
  \/ \E p \in Panes, n \in Name : Rename(p, n)
  \/ Drop

Next == Herdr \/ Stream \/ (\E c \in Callers : Listing(c)) \/ Take
        \/ (\E why \in {"coalesce", "interval"} : Snapshot(why)) \/ Tell \/ Dispatch \/ Replay

Spec == Init /\ [][Next]_vars

(* The goroutines run, and their timers fire; the interval comes round for *)
(* ever.                                                                   *)
FairSpec ==
  /\ Spec
  /\ WF_vars(Dial) /\ WF_vars(Resubscribe) /\ WF_vars(Retry) /\ WF_vars(Read) /\ WF_vars(DrainRead) /\ WF_vars(DrainEnds)
  /\ WF_vars(Reset) /\ WF_vars(Pause)
  /\ (\A c \in Callers : WF_vars(Listing(c))) /\ WF_vars(Snapshot("interval")) /\ SF_vars(Take) /\ WF_vars(Tell) /\ WF_vars(Dispatch)

---------------------------------------------------------------------------
(* Once Herdr is left alone the registry has its agents, all of them       *)
(* visible, and the stream watches their panes, whatever was lost: notices *)
(* with a connection, a listing, a change before its pane was watched.     *)
ViewSettles == <>[](/\ reg.agents = Truth /\ reg.retired = {}
                    /\ conn.up /\ conn.watch = PanesOf(herdr))

(* The agents known after some events: of each key the last event counts.  *)
Last(events) ==
  {i \in 1..Len(events) : \A j \in (i + 1)..Len(events) : events[j].agent.key # events[i].agent.key}
Fold(S, events) ==
  {a \in S : \A i \in 1..Len(events) : events[i].agent.key # a.key}
    \cup {events[i].agent : i \in {j \in Last(events) : events[j].kind # "gone"}}

(* What the daemon was told, with what is on its way, is what the registry *)
(* has, as long as only the registry's own goroutine takes snapshots.      *)
FeedIsTrue ==
  daemon.at = "idle" /\ ~past.replayed => Fold(daemon.seen, feed \o loop.events) = reg.agents

(* A key that the registry has been told is gone is not answered for any   *)
(* more, unless the daemon's own snapshot read its list before.            *)
GoneStaysGone == ~past.replayed => KeysOf(Visible) \cap past.told = {}

(* A change that was pushed on a connection reaches the registry, and is   *)
(* the last of its pane to do so, across any number of handovers.          *)
HandoverLosesNothing ==
  stream.at = "serve" /\ conn.line = <<>> /\ ~world.slow =>
    \A a \in herdr : a.key.pane \in past.pushed => past.emitted[a.key.pane] = a.status
=============================================================================
