----------------------------- MODULE DaemonLoop -----------------------------
(* One run of the daemon process: app/daemon.go, the queues of              *)
(* app/bridge.go, the inbound side of adapters/telegram, and the start and  *)
(* the stop around them (adapters/telegram/connect.go, cli/daemon.go).      *)
(*                                                                          *)
(* The loop takes one ready case of its select at a time and hands work to  *)
(* the bridge over bounded channels, blocking while they are full; the      *)
(* bridge takes its jobs by three selects; the registry sends agent events, *)
(* the poller of Telegram sends updates, slow work of the bridge comes back *)
(* as a job.  A handler that may wait between its steps is split there.     *)
(*                                                                          *)
(* A job is named for what it changes here; what it does to topics, posts   *)
(* and grants is the other modules'.  Topic edits put off under quiet are   *)
(* the boolean owed.edits, posts held back are owed.posts.                  *)
EXTENDS Presence, FiniteSets

CONSTANTS Capacity,   \* of every channel: 64 to 256 in the code
          Burst,      \* control jobs in a row: 4 in the code
          LoopWorlds  \* what may happen: budgets of events, updates and faults

ASSUME LoopAssumption == Capacity \in Nat \ {0} /\ Burst \in Nat \ {0}

VARIABLES
  ctx,     \* the run context: "live", or the cause it was cancelled with
  loop,    \* the daemon goroutine
  bridge,  \* the bridge goroutine
  side,    \* the registry, the Telegram runner, its poller, slow work
  chan,    \* the channels
  asks,    \* signals of capacity one, set and not yet taken
  owed,    \* what quiet has put off
  told,    \* whether the stopping notice went out
  left     \* the budgets of this behaviour

loopVars == <<pres, ctx, loop, bridge, side, chan, asks, owed, told, left>>

Spend(field) == left[field] > 0 /\ left' = [left EXCEPT ![field] = @ - 1]
Cancelled == ctx # "live"
LoopCtxDone == Cancelled \/ loop.pc \in {"join", "ended"}   \* cancel() when Run returns
Held == pres.quiet                                          \* quiet.topics is on

------------------------------------------------------------------------------
(* What an update becomes: the match functions and handlers of inbound.go.  *)
(* from: operator, observer, stranger; place: topic, general, elsewhere.    *)
Refused(u) == u.old /\ u.what # "asks"       \* rejectRetained
Stranger(u) == u.from = "stranger" /\ u.place # "elsewhere"
OfTopic(u) == CASE u.what \in {"text", "asks", "file"} -> "owner"
                [] u.what \in {"closed", "reopened", "renamed"} -> u.what
                [] OTHER -> "none"           \* an icon edit, a sticker
OnCallback(u) == IF u.from = "operator" THEN "press" ELSE "none"
EventOf(u) ==
  CASE u.place = "elsewhere" \/ Refused(u) -> "none"
    [] u.what = "member" -> u.from           \* the right: "lost" or "regained"
    [] u.what = "private" -> "private"
    [] u.from = "stranger" -> "stranger"
    [] u.what = "press" -> OnCallback(u)
    [] u.place = "topic" -> IF u.from = "operator" THEN OfTopic(u) ELSE "none"
    [] OTHER -> IF u.what \in {"text", "file"} THEN "none"
                ELSE IF u.from = "operator" THEN u.what ELSE "owner"

(* The poller runs its handlers inline: a full channel holds it, except for *)
(* a stranger, who is dropped.                                              *)
Arrive(u) ==
  /\ side.tg = "run" /\ side.poller = "none" /\ Spend("updates")
  /\ side' = IF EventOf(u) \in {"none", "stranger"} THEN side
             ELSE [side EXCEPT !.poller = EventOf(u)]
  /\ chan' = IF EventOf(u) = "stranger" /\ Len(chan.updates) < Capacity
             THEN [chan EXCEPT !.updates = Append(@, "owner")] ELSE chan
  /\ UNCHANGED <<pres, ctx, loop, bridge, asks, owed, told>>

Emit ==
  /\ side.poller # "none"
  /\ \/ /\ Len(chan.updates) < Capacity
        /\ chan' = [chan EXCEPT !.updates = Append(@, side.poller)]
     \/ side.tg = "stopping" /\ UNCHANGED chan
  /\ side' = [side EXCEPT !.poller = "none"]
  /\ UNCHANGED <<pres, ctx, loop, bridge, asks, owed, told, left>>

(* 401 and 409 are final: the poller cancels the run with a cause.          *)
PollFails ==
  /\ side.tg = "run" /\ ctx = "live" /\ Spend("conflicts")
  /\ ctx' = "poller"
  /\ UNCHANGED <<pres, loop, bridge, side, chan, asks, owed, told>>

(* A stop signal or the control channel.                                    *)
StopRequested ==
  /\ ctx = "live" /\ loop.pc # "ended" /\ Spend("stops")
  /\ ctx' = "stop"
  /\ UNCHANGED <<pres, loop, bridge, side, chan, asks, owed, told>>

------------------------------------------------------------------------------
(* The start: Telegram is tried until it answers, fails for good, or the    *)
(* daemon is told to stop; only then is the loop run beside the runner.     *)
Go(pc) == [loop EXCEPT !.pc = pc]
Quits(why) == [loop EXCEPT !.pc = "join", !.why = why]      \* Run returns an error

Connect ==
  /\ loop.pc = "connect"
  /\ \/ /\ loop' = Go("begin") /\ side' = [side EXCEPT !.tg = "run"]
        /\ UNCHANGED left
     \/ Spend("fails") /\ loop' = Go("retry") /\ UNCHANGED side           \* OnWait, then the sleep
     \/ Spend("fatals") /\ loop' = [loop EXCEPT !.pc = "ended", !.why = "fatal"] /\ UNCHANGED side
     \/ Cancelled /\ loop' = [loop EXCEPT !.pc = "ended", !.why = ctx] /\ UNCHANGED <<side, left>>
  /\ UNCHANGED <<pres, ctx, bridge, chan, asks, owed, told>>

Retry ==
  /\ loop.pc = "retry"
  /\ loop' = IF Cancelled THEN [loop EXCEPT !.pc = "ended", !.why = ctx] ELSE Go("connect")
  /\ UNCHANGED <<pres, ctx, bridge, side, chan, asks, owed, told, left>>

(* A call of the loop to Telegram: it works, or is refused for good.        *)
CallMade(then) ==
  \/ loop' = then /\ UNCHANGED left
  \/ Spend("fatals") /\ loop' = Quits("fatal")

(* The first sample is the baseline: its flip is dropped.  The rights       *)
(* decide about read-only; an answer that failed is taken for a yes.        *)
Begin ==
  /\ loop.pc = "begin"
  /\ \E outs \in left.samples : \E p \in Expired(pres) :
       pres' = [Recomputed(Stored(p, SampleChain(outs))) EXCEPT !.change = "none"]
  /\ \E readOnly \in left.rights :
       CallMade([Go("started") EXCEPT !.readOnly = readOnly])
  /\ UNCHANGED <<ctx, bridge, side, chan, asks, owed, told>>

(* The reconciler writes no topic under quiet: the change is owed.          *)
Owing == owed' = [owed EXCEPT !.edits = @ \/ Held]

(* Snapshot, reconcile, Repin; the goroutines start; the agents of the      *)
(* snapshot go to the bridge; the first sweep.                              *)
Started ==
  /\ loop.pc = "started"
  /\ bridge' = [bridge EXCEPT !.pc = "top"]
  /\ side' = [side EXCEPT !.reg = "run"]
  /\ asks' = {"board"}
  /\ Owing
  /\ CallMade([Go("first") EXCEPT !.evs = 1])
  /\ UNCHANGED <<pres, ctx, chan, told>>

Submit(job, next) == [loop EXCEPT !.pc = "submit", !.job = job, !.next = next]

FirstAgents ==
  /\ loop.pc = "first"
  /\ \/ loop.evs > 0 /\ loop' = [Submit("agent", "first") EXCEPT !.evs = @ - 1] /\ UNCHANGED left
     \/ loop.evs = 0 /\ CallMade(Go("select"))                            \* runSweep
  /\ UNCHANGED <<pres, ctx, bridge, side, chan, asks, owed, told>>

------------------------------------------------------------------------------
(* SubmitContext and submitBridge: state and control wait for room; the     *)
(* private lane says busy; once the run is cancelled nothing is accepted    *)
(* and the loop goes on to its select.                                      *)
Queue(job) == IF job = "agent" THEN "jobs" ELSE IF job = "private" THEN "private" ELSE "control"
Room(q) == Len(chan[q]) < Capacity

SubmitDone ==
  /\ loop.pc = "submit"
  /\ LET q == Queue(loop.job)
     IN \/ ~Cancelled /\ Room(q) /\ chan' = [chan EXCEPT ![q] = Append(@, loop.job)]
        \/ (Cancelled \/ (q = "private" /\ ~Room(q))) /\ UNCHANGED chan
  /\ loop' = Go(loop.next)
  /\ UNCHANGED <<pres, ctx, bridge, side, asks, owed, told, left>>

(* An event of an agent schedules an edit, or it is owed.                   *)
AgentEvent ==
  /\ loop.pc = "select" /\ chan.events # <<>>
  /\ chan' = [chan EXCEPT !.events = Tail(@)]
  /\ Owing
  /\ asks' = asks \cup {"board"} \cup IF Held THEN {} ELSE {"due"}
  /\ CallMade(Submit("agent", "select"))
  /\ UNCHANGED <<pres, ctx, bridge, side, told>>

EditDue ==
  /\ loop.pc = "select" /\ "due" \in asks
  /\ asks' = asks \ {"due"}
  /\ Owing
  /\ CallMade(Go("select"))
  /\ UNCHANGED <<pres, ctx, bridge, side, chan, told>>

(* The dashboard, the pager probe, the sweep: one handler, one fatal way.   *)
Signalled ==
  /\ loop.pc = "select"
  /\ \E s \in asks \cap {"board", "probe", "sweep"} : asks' = asks \ {s}
  /\ CallMade(Go("select"))
  /\ UNCHANGED <<pres, ctx, bridge, side, chan, owed, told>>

ResyncAsked ==
  /\ loop.pc = "select" /\ "resync" \in asks
  /\ asks' = asks \ {"resync"}
  /\ loop' = [Go("replay") EXCEPT !.then = "select"]
  /\ UNCHANGED <<pres, ctx, bridge, side, chan, owed, told, left>>

(* replay: a snapshot, its events, the edits waiting, the drift pass.       *)
Replay ==
  /\ loop.pc = "replay"
  /\ \/ \E n \in {0, 1} : loop' = [Go("dispatch") EXCEPT !.evs = n] /\ UNCHANGED left
     \/ Spend("fails") /\ loop' = Go(loop.then)
     \/ Cancelled /\ loop' = Go(loop.then) /\ UNCHANGED left
  /\ UNCHANGED <<pres, ctx, bridge, side, chan, asks, owed, told>>

Dispatch ==
  /\ loop.pc = "dispatch" /\ loop.evs > 0
  /\ Owing
  /\ CallMade([Submit("agent", "dispatch") EXCEPT !.evs = @ - 1])
  /\ UNCHANGED <<pres, ctx, bridge, side, chan, asks, told>>

Rewrite ==
  /\ loop.pc = "dispatch" /\ loop.evs = 0
  /\ \/ loop' = Go(loop.then) /\ UNCHANGED left
        /\ owed' = [owed EXCEPT !.edits = @ /\ (Held \/ loop.readOnly)]
     \/ Spend("fatals") /\ loop' = Quits("fatal") /\ UNCHANGED owed
  /\ asks' = asks \ {"due"}
  /\ UNCHANGED <<pres, ctx, bridge, side, chan, told>>

------------------------------------------------------------------------------
(* Presence: the minute's sample, and a flip that reached the loop.  Quiet  *)
(* that ended is caught up: the topics here, the posts by a job.            *)
PollBegins ==
  /\ loop.pc = "select" /\ Spend("polls")
  /\ \E answers \in BOOLEAN : Poll(answers) /\ loop' = Go(IF answers THEN "asking" ELSE "select")
  /\ UNCHANGED <<ctx, bridge, side, chan, asks, owed, told>>

PollEnds ==
  /\ loop.pc = "asking"
  /\ \E outs \in left.samples : Sample(SampleChain(outs))
  /\ loop' = Go("select")
  /\ UNCHANGED <<ctx, bridge, side, chan, asks, owed, told, left>>

Flipped ==
  /\ loop.pc = "select" /\ pres.change # "none"
  /\ TakeChange
  /\ loop' = IF pres.change = "began" THEN loop ELSE [Go("replay") EXCEPT !.then = "away"]
  /\ asks' = asks \cup {"board"}
  /\ UNCHANGED <<ctx, bridge, side, chan, owed, told, left>>

AwayJob ==
  /\ loop.pc = "away"
  /\ loop' = Submit("catchup", "select")
  /\ UNCHANGED <<pres, ctx, bridge, side, chan, asks, owed, told, left>>

------------------------------------------------------------------------------
(* An update of Telegram: onTelegramEvent.                                  *)
InLoop == {"closed", "reopened", "renamed"}

Handed(ev) ==       \* with DenyImmediately for a press
  /\ ev \notin InLoop \cup {"lost", "regained"}
  /\ loop' = Submit(ev, "select") /\ UNCHANGED left

OfTheTopic(ev) == ev \in InLoop /\ CallMade(Go("select"))

RightsChanged(ev) ==
  /\ ev \in {"lost", "regained"} /\ UNCHANGED left
  /\ loop' = IF ev = "regained" /\ loop.readOnly
             THEN [Go("replay") EXCEPT !.then = "select", !.readOnly = FALSE]
             ELSE [loop EXCEPT !.readOnly = @ \/ ev = "lost"]

Update ==
  /\ loop.pc = "select" /\ chan.updates # <<>>
  /\ chan' = [chan EXCEPT !.updates = Tail(@)]
  /\ LET ev == Head(chan.updates)
     IN Handed(ev) \/ OfTheTopic(ev) \/ RightsChanged(ev)
  /\ UNCHANGED <<pres, ctx, bridge, side, asks, owed, told>>

------------------------------------------------------------------------------
(* The ends of the loop: a cancelled run, a fatal job of the bridge, and a  *)
(* socket gone for good say goodbye first; any other error just returns.    *)
Leaves(why) == loop' = [loop EXCEPT !.pc = "last", !.why = why]

SeesStop ==
  /\ loop.pc = "select" /\ Cancelled /\ Leaves(ctx)
  /\ UNCHANGED <<pres, ctx, bridge, side, chan, asks, owed, told, left>>

SeesFatal ==
  /\ loop.pc = "select" /\ chan.fatal # <<>> /\ Leaves("bridge")
  /\ chan' = [chan EXCEPT !.fatal = <<>>]
  /\ UNCHANGED <<pres, ctx, bridge, side, asks, owed, told, left>>

SocketGone ==
  /\ loop.pc = "select" /\ Spend("sockets") /\ Leaves("socket")
  /\ UNCHANGED <<pres, ctx, bridge, side, chan, asks, owed, told>>

(* shutdown: the notice, the dashboard's footer and the edits waiting, on a *)
(* context of their own, through the queue of the Telegram runner.          *)
Shutdown ==
  /\ loop.pc = "last"
  /\ told' = IF side.tg = "run" THEN "sent" ELSE "unsent"
  /\ loop' = Go("join")
  /\ UNCHANGED <<pres, ctx, bridge, side, chan, asks, owed, left>>

Joined ==
  /\ loop.pc = "join"
  /\ bridge.pc \in {"off", "ended"} /\ side.reg \in {"off", "ended"}
  /\ loop' = Go("ended")
  /\ UNCHANGED <<pres, ctx, bridge, side, chan, asks, owed, told, left>>

(* runWithTelegram: the runner lives on a context of its own, stopped when  *)
(* the loop has returned, and ends once its poller is out of its handler.   *)
TelegramStops == loop.pc = "ended"
TelegramSide ==
  /\ \/ side.tg = "run" /\ TelegramStops /\ side' = [side EXCEPT !.tg = "stopping"]
     \/ side.tg = "stopping" /\ side.poller = "none" /\ side' = [side EXCEPT !.tg = "ended"]
  /\ UNCHANGED <<pres, ctx, loop, bridge, chan, asks, owed, told, left>>

------------------------------------------------------------------------------
(* The registry: an event waits for room or for the end of the run.         *)
Registry ==
  /\ \/ /\ side.reg = "run" /\ Spend("acts")
        /\ side' = [side EXCEPT !.reg = "send"] /\ UNCHANGED chan
     \/ /\ side.reg = "send" /\ Len(chan.events) < Capacity
        /\ side' = [side EXCEPT !.reg = "run"]
        /\ chan' = [chan EXCEPT !.events = Append(@, "agent")] /\ UNCHANGED left
     \/ /\ side.reg \in {"run", "send"} /\ LoopCtxDone
        /\ side' = [side EXCEPT !.reg = "ended"] /\ UNCHANGED <<chan, left>>
  /\ UNCHANGED <<pres, ctx, loop, bridge, asks, owed, told>>

------------------------------------------------------------------------------
(* The bridge: three selects.  Waiting: what the burst must not starve, a   *)
(* state event or a timer of a screen, a command or a turn.                 *)
Waiting == chan.jobs # <<>> \/ bridge.timer

TakeControl ==
  /\ chan.control # <<>>
  /\ bridge' = [bridge EXCEPT !.pc = "run", !.job = Head(chan.control), !.burst = @ + 1,
                              !.passed = IF Waiting THEN @ + 1 ELSE 0]
  /\ chan' = [chan EXCEPT !.control = Tail(@)]

TakeState ==
  \/ /\ chan.jobs # <<>>
     /\ bridge' = [bridge EXCEPT !.pc = "run", !.job = "agent", !.burst = 0, !.passed = 0]
     /\ chan' = [chan EXCEPT !.jobs = Tail(@)]
  \/ /\ bridge.timer /\ UNCHANGED chan
     /\ bridge' = [bridge EXCEPT !.pc = "run", !.job = "screen", !.burst = 0, !.passed = 0, !.timer = FALSE]

TakePrivate ==
  /\ chan.private # <<>>
  /\ bridge' = [bridge EXCEPT !.pc = "run", !.job = "private", !.burst = 0, !.passed = 0]
  /\ chan' = [chan EXCEPT !.private = Tail(@)]

FirstSelectAlways == TRUE   \* mutant: the burst is not bounded
FirstSelect == bridge.burst < Burst
BridgeTop ==
  /\ bridge.pc = "top"
  /\ IF FirstSelect
     THEN \/ TakeControl
          \/ chan.control = <<>> /\ bridge' = [bridge EXCEPT !.pc = "wait"] /\ UNCHANGED chan
     ELSE \/ TakeState
          \/ ~Waiting /\ bridge' = [bridge EXCEPT !.pc = "wait"] /\ UNCHANGED chan
  /\ UNCHANGED <<pres, ctx, loop, side, asks, owed, told, left>>

BridgeWait ==
  /\ bridge.pc = "wait"
  /\ TakeControl \/ TakeState \/ TakePrivate
  /\ UNCHANGED <<pres, ctx, loop, side, asks, owed, told, left>>

(* A job ends, in time or by its timeout.  A fatal answer goes to the loop  *)
(* unless one is waiting there already.                                     *)
Ended == [bridge EXCEPT !.pc = "top"]
JobFatal ==
  /\ bridge.pc = "run" /\ Spend("fatals")
  /\ bridge' = Ended
  /\ chan' = IF chan.fatal = <<>> THEN [chan EXCEPT !.fatal = <<"fatal">>] ELSE chan
  /\ UNCHANGED <<pres, ctx, loop, side, asks, owed, told>>

(* An agent event arms the timer of the screen; under quiet the post is     *)
(* held until the catch-up.                                                 *)
ScreenJob ==
  /\ bridge.pc = "run" /\ bridge.job \in {"agent", "screen", "catchup"}
  /\ bridge' = [Ended EXCEPT !.timer = @ \/ bridge.job = "agent"]
  /\ owed' = [owed EXCEPT !.posts = CASE bridge.job = "agent" -> @
                                      [] bridge.job = "screen" -> @ \/ pres.quiet
                                      [] OTHER -> FALSE]
  /\ UNCHANGED <<pres, ctx, loop, side, chan, asks, told, left>>

(* /new and a download run beside the bridge and come back as a job.        *)
OwnerJob ==
  /\ bridge.pc = "run" /\ bridge.job \in {"owner", "press", "private", "result", "new"}
  /\ bridge' = Ended
  /\ side' = IF bridge.job = "new" /\ side.slow = "none" THEN [side EXCEPT !.slow = "work"] ELSE side
  /\ UNCHANGED <<pres, ctx, loop, chan, asks, owed, told, left>>

PresenceJob ==
  /\ bridge.pc = "run"
  /\ \/ bridge.job = "goaway" /\ \E timed \in BOOLEAN : Away(timed)
     \/ bridge.job = "here" /\ Here
  /\ bridge' = Ended
  /\ UNCHANGED <<ctx, loop, side, chan, asks, owed, told, left>>

(* Options.Set: saved and in force, then the hooks, which only signal.      *)
Keys == {"quiet", "sync", "pager", "delete"}
Signals(key) == CASE key = "quiet" -> {"board"} [] key = "sync" -> {"board", "resync"}
                  [] key = "pager" -> {"probe"} [] OTHER -> {"sweep"}
OptionSaved ==
  /\ bridge.pc = "run" /\ bridge.job \in Keys
  /\ \/ /\ bridge' = [bridge EXCEPT !.pc = "hook"] /\ UNCHANGED left
        /\ pres' = IF bridge.job = "quiet" THEN Switched(pres, ~pres.enabled) ELSE pres
     \/ Spend("fails") /\ bridge' = Ended /\ UNCHANGED pres
  /\ UNCHANGED <<ctx, loop, side, chan, asks, owed, told>>

OptionHooks ==
  /\ bridge.pc = "hook"
  /\ IF bridge.job = "quiet" THEN Recompute ELSE UNCHANGED pres
  /\ asks' = asks \cup Signals(bridge.job)
  /\ bridge' = Ended
  /\ UNCHANGED <<ctx, loop, side, chan, owed, told, left>>

(* SubmitContext of the slow work: it waits for room or for the end.        *)
SubmitNever == FALSE   \* mutant: the submission has no context
SubmitGivesUp == LoopCtxDone
SlowWork ==
  /\ \/ side.slow = "work" /\ side' = [side EXCEPT !.slow = "submit"] /\ UNCHANGED chan
     \/ /\ side.slow = "submit" /\ side' = [side EXCEPT !.slow = "none"]
        /\ \/ Room("control") /\ ~LoopCtxDone /\ chan' = [chan EXCEPT !.control = Append(@, "result")]
           \/ SubmitGivesUp /\ UNCHANGED chan
  /\ UNCHANGED <<pres, ctx, loop, bridge, asks, owed, told, left>>

BridgeEnds ==
  /\ \/ /\ bridge.pc \in {"top", "wait"} /\ LoopCtxDone
        /\ bridge' = [bridge EXCEPT !.pc = "joining"]
     \/ /\ bridge.pc = "joining" /\ side.slow = "none"
        /\ bridge' = [bridge EXCEPT !.pc = "ended"]
  /\ UNCHANGED <<pres, ctx, loop, side, chan, asks, owed, told, left>>

------------------------------------------------------------------------------
LoopStarts(pc, worlds) ==
  /\ left \in worlds
  /\ pres = NewPresence(left.enabled, left.desk)
  /\ ctx = "live"
  /\ loop = [pc |-> pc, job |-> "none", next |-> "select", then |-> "select",
             evs |-> 0, why |-> "none", readOnly |-> FALSE]
  /\ bridge = [pc |-> "off", job |-> "none", burst |-> 0, timer |-> FALSE, passed |-> 0]
  /\ side = [reg |-> "off", tg |-> "off", poller |-> "none", slow |-> "none"]
  /\ chan = [events |-> <<>>, updates |-> <<>>, control |-> <<>>, jobs |-> <<>>,
             private |-> <<>>, fatal |-> <<>>]
  /\ asks = {} /\ owed = [edits |-> FALSE, posts |-> FALSE] /\ told = "none"
LoopInit == LoopStarts("connect", LoopWorlds)

LoopStep == \/ Connect \/ Retry \/ Begin \/ Started \/ FirstAgents \/ SubmitDone
            \/ AgentEvent \/ EditDue \/ Signalled \/ ResyncAsked
            \/ Replay \/ Dispatch \/ Rewrite
            \/ PollEnds \/ Flipped \/ AwayJob \/ Update
            \/ SeesFatal \/ Shutdown \/ Joined
BridgeStep == \/ BridgeTop \/ BridgeWait \/ ScreenJob \/ OwnerJob \/ PresenceJob
              \/ OptionSaved \/ OptionHooks

LoopNext == \/ LoopStep \/ SeesStop \/ SocketGone \/ PollBegins
            \/ BridgeStep \/ JobFatal \/ BridgeEnds \/ SlowWork
            \/ Registry \/ Emit \/ TelegramSide
            \/ (\E u \in left.kinds : Arrive(u)) \/ PollFails \/ StopRequested

(* Every goroutine goes on; a select that keeps finding a case ready takes  *)
(* it in the end (the stop, the registry's, the poller's).                  *)
LoopFairness == /\ WF_loopVars(LoopStep) /\ WF_loopVars(BridgeStep) /\ SF_loopVars(SeesStop)
                /\ WF_loopVars(BridgeEnds) /\ WF_loopVars(SlowWork) /\ WF_loopVars(Registry)
                /\ WF_loopVars(Emit) /\ WF_loopVars(TelegramSide)

------------------------------------------------------------------------------
(* While a state event or a timer waits at the bridge, at most Burst        *)
(* control jobs run before a select that offers it is decided.              *)
OthersGetATurn == bridge.passed <= Burst

(* What is put off is caught up: when quiet has ended for good, the topics  *)
(* the daemon owes are rewritten and the posts it holds are sent, unless    *)
(* the daemon ends, lost its rights, or the snapshot of the catch-up        *)
(* failed.                                                                  *)
CatchesUp == <>[](~pres.quiet /\ loop.pc # "ended" /\ ~Cancelled /\ ~loop.readOnly)
               => <>[](owed = [edits |-> FALSE, posts |-> FALSE])

(* A daemon that has to end ends, with every goroutine it started; the      *)
(* notice of a stop, a fatal job and a lost socket goes out before, through *)
(* a queue that still runs.                                                 *)
MustEnd == Cancelled \/ loop.pc \in {"last", "join"}
AllEnded == /\ loop.pc = "ended" /\ bridge.pc \in {"off", "ended"} /\ side.reg \in {"off", "ended"}
            /\ side.slow = "none" /\ side.tg \in {"off", "ended"}
Stops == MustEnd ~> AllEnded /\ told # "unsent"
=============================================================================
