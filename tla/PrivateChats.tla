---------------------------- MODULE PrivateChats ----------------------------
(***************************************************************************)
(* The chats of the recipients an agent is shared with                     *)
(* (app/private_control.go, app/private_output.go,                         *)
(* app/private_entryanswer.go, app/private_dashboard.go and what           *)
(* adapters/telegram/private_admission.go lets in): they show what the     *)
(* agent shows, and take its input.                                        *)
(*                                                                         *)
(* There is one agent, and each grant has its recipient and its topic.     *)
(* The daemon's loop (what it hears of Herdr, a denial the owner asks for) *)
(* and Telegram run beside the bridge.  A handler of the bridge that       *)
(* writes to the agent is a step and a job that is left; a private tick is *)
(* the set of parts that are left of it.  In a world without "races" the   *)
(* pane waits for the bridge.  Left out: a change of the agent's key (see  *)
(* Sharing), the picker's hold and the typed check (see Prompts).          *)
(***************************************************************************)
EXTENDS Naturals, Sequences, FiniteSets

CONSTANTS Grants, None,
          Worlds,                        \* what is written, and what happens
          Batch,                         \* mirrors that get a post in one tick
          MaxPolls, MaxRetries, Slots,   \* privateEntryPolls, replyPendingRetries, transfers at once
          MaxQueue, MaxMessages, MaxHeard  \* bounds: private jobs, messages, events on their way

Presses == {"choice", "pencil", "confirm"}
Reads == {"screen", "git"}
Kinds == Presses \cup Reads \cup {"plain", "keys", "usage", "close", "file", "part", "pause", "resume"}
Options == {"races", "desk", "owner", "exits", "git", "dashboard", "replies", "repeats"}

ASSUME PrivateChatsAssumption ==
  /\ None \notin Grants
  /\ {Batch, MaxPolls, MaxRetries, Slots, MaxQueue, MaxMessages, MaxHeard} \subseteq Nat \ {0}
  /\ \A w \in Worlds :
       /\ w.kinds \subseteq Kinds /\ w.views \subseteq {"menu", "entry"} /\ w.options \subseteq Options
       /\ (w.shared \cup w.writers \cup w.readers \cup w.screens) \subseteq Grants
       /\ {w.messages, w.questions, w.turns, w.denials, w.failures, w.restarts, w.switches} \subseteq Nat
       /\ w.messages <= MaxMessages

VARIABLES
  opt,     \* the world
  pane,    \* the agent: status, what it shows, the question, its count of state changes
  heard,   \* what the registry is to hear of it
  known,   \* what the registry says
  news,    \* events on their way to the bridge
  grant,   \* each grant's state and revision, and whether its mirror is paused
  chat,    \* for each grant, what its chat shows and what the bridge keeps of it
  bridge,  \* what is to be posted, and what waits
  moving,  \* downloads and repository commands
  queue,   \* messages the bridge has been given
  msg,     \* the messages of the recipients
  job,     \* what is left of a handler
  tick,    \* what is left of a tick
  effect,  \* what the last step did to the agent
  spent    \* what the world has done, the sync switch with it; and history:
           \* what the pane was at when a post was last thrown away
vars == <<opt, pane, heard, known, news, grant, chat, bridge, moving, queue, msg, job, tick, effect, spent>>
agent == <<heard, known, news>>

Has(option) == option \in opt.options
Fails == spent.failures < opt.failures /\ spent' = [spent EXCEPT !.failures = @ + 1]
Succeeds == UNCHANGED spent
Idle == job = None /\ tick = {}
---------------------------------------------------------------------------
(* Access: Begin admits what AuthorizeShare allows.                        *)
Live == known.status # "exited"
Active(g, rev) == grant[g].state = "active" /\ grant[g].rev = rev
Permits(g, action) == action \in {"output", "screen", "overview", "preferences", "git"} \/ g \notin opt.readers
Begin(g, rev, action) == Live /\ Active(g, rev) /\ Permits(g, action)

Action(kind) ==
  CASE kind \in {"plain"} -> "prompt"
    [] kind = "keys" -> "keys"
    [] kind = "usage" -> "forward"
    [] kind \in {"close", "confirm"} -> "close"
    [] kind \in {"file", "part"} -> "attachment"
    [] kind \in {"choice", "pencil"} -> "dialog"
    [] kind \in {"pause", "resume"} -> "preferences"
    [] OTHER -> kind

Ends(ms, fate) == msg' = [m \in DOMAIN msg |-> IF m \in ms THEN [msg[m] EXCEPT !.fate = fate] ELSE msg[m]]
EndsActed(m, fate) == msg' = [n \in DOMAIN msg |-> IF n = m THEN [msg[n] EXCEPT !.fate = fate, !.acts = @ + 1] ELSE msg[n]]
---------------------------------------------------------------------------
(* The pane.                                                               *)
Dialog == pane.view \in {"menu", "entry", "focusing", "open"}
Open(q) == pane.view = "open" /\ pane.question = q
Waits(q) == pane.view = "entry" /\ pane.question = q

To(status, view, q) == [status |-> status, view |-> view, question |-> q, seq |-> pane.seq + (IF status = pane.status THEN 0 ELSE 1)]
Works == To("working", "input", 0)
Changes(next) ==
  /\ pane' = next
  /\ heard' = IF next.seq = pane.seq THEN heard ELSE Append(heard, [status |-> next.status, seq |-> next.seq])
Same == UNCHANGED <<pane, heard>>

Effect(by, g, rev, what, meant) ==
  effect' = [by |-> by, g |-> g, rev |-> rev, what |-> what, question |-> pane.question, meant |-> meant,
             late |-> job # None /\ job.late]
Still == effect' = None

(* A text and an enter.                                                    *)
TextLands(by, g, rev, kind, meant) ==
  CASE pane.view = "open" -> Changes(Works) /\ Effect(by, g, rev, "answer", meant)
    [] Dialog /\ pane.view # "open" -> Changes(Works) /\ Effect(by, g, rev, "option", meant)
    [] pane.view = "overlay" -> Same /\ Effect(by, g, rev, "lost", meant)
    [] OTHER -> Effect(by, g, rev, "prompt", meant)
                /\ Changes(IF kind = "usage" /\ pane.status = "idle" THEN [pane EXCEPT !.view = "overlay"] ELSE Works)

KeyLands(by, g, rev, key, meant) ==
  CASE key = "digit" /\ pane.view = "entry" -> Changes([pane EXCEPT !.view = "focusing"]) /\ Effect(by, g, rev, "focus", meant)
    [] key \in {"choice", "enter", "digit"} /\ Dialog /\ ~(key = "digit" /\ pane.view \in {"entry", "open"}) ->
         Changes(Works) /\ Effect(by, g, rev, "option", meant)
    [] key = "esc" /\ (Dialog \/ pane.view = "overlay") -> Changes(To("idle", "input", 0)) /\ Effect(by, g, rev, "closed", meant)
    [] key = "esc" /\ pane.view = "input" /\ pane.status = "working" ->
         Changes(To("idle", "input", 0)) /\ Effect(by, g, rev, "interrupt", meant)
    [] OTHER -> Same /\ Effect(by, g, rev, "nothing", meant)
---------------------------------------------------------------------------
(* PrivateOutput: a post waits, for the grants that are active when the    *)
(* agent asks or ends its turn.                                            *)
ActiveGrants == {<<g, grant[g].rev>> : g \in {h \in Grants : grant[h].state = "active"}}
Post(status, seq) == [status |-> status, seq |-> seq, grants |-> ActiveGrants, captured |-> None, attempts |-> 0]

Observed(b, kind, status, seq) ==
  CASE status = "exited" -> [b EXCEPT !.post = None, !.working = FALSE]
    [] status = "working" -> [b EXCEPT !.post = None, !.working = TRUE]
    [] kind = "appeared" -> b
    [] status = "blocked" -> [b EXCEPT !.working = FALSE, !.post = IF ActiveGrants = {} THEN @ ELSE Post("blocked", seq)]
    [] status = "idle" /\ b.working -> [b EXCEPT !.working = FALSE, !.post = IF ActiveGrants = {} THEN @ ELSE Post("done", seq)]
    [] OTHER -> b

(* A refresh posts again what has been posted.                             *)
Refreshed(b) == Observed(b, "changed", known.status, known.seq)
Repost(c, b) ==
  [g \in Grants |-> IF b.post # None /\ Live THEN IF g \in {p[1] : p \in b.post.grants} THEN [c[g] EXCEPT !.last = None] ELSE c[g] ELSE c[g]]

(* Invalidate: whoever acts takes the buttons and the waits of all.        *)
Invalidated(b) == [b EXCEPT !.typing = None, !.answer = None]
WithoutButtons(c) == [g \in Grants |-> [c[g] EXCEPT !.button = None, !.closing = {}]]
Dropped == IF bridge.answer = None THEN {} ELSE {bridge.answer.m}
---------------------------------------------------------------------------
(* effect: admitted once more when the buttons are gone.                   *)
Starts(m, g, rev, next) ==
  IF Begin(g, rev, next.action)
  THEN /\ bridge' = Invalidated(bridge) /\ chat' = WithoutButtons(chat)
       /\ Ends(Dropped, "dropped")
       /\ job' = [next EXCEPT !.m = m, !.g = g, !.rev = rev]
  ELSE Ends({m}, "denied") /\ UNCHANGED <<bridge, chat, job>>

Act(do, action, meant) == [do |-> do, action |-> action, meant |-> meant, m |-> 0, g |-> None, rev |-> 0, late |-> heard # <<>>]

\* A mutant: what waited is not admitted again.
DeniedNever(j) == j.do \notin {"send", "service"} /\ ~Live
Denied(j) == j.do \notin {"send", "service"} /\ ~Begin(j.g, j.rev, j.action)
JobDenied ==
  /\ job # None /\ Denied(job) /\ job' = None
  /\ Ends({job.m}, "denied")
  /\ Still /\ UNCHANGED <<opt, agent, pane, grant, chat, bridge, moving, queue, tick, spent>>

JobFails ==
  /\ job # None /\ job.do \notin {"send", "service"} /\ ~Denied(job) /\ job' = None
  /\ Fails /\ Ends({job.m}, "failed")
  /\ Still /\ UNCHANGED <<opt, agent, pane, grant, chat, bridge, moving, queue, tick>>

Job(do) == job # None /\ job.do = do /\ ~Denied(job) /\ Succeeds /\ UNCHANGED <<opt, known, news, grant, moving, queue, tick>>

(* The keys of a press; the text button leaves a wait for a text.          *)
Press ==
  /\ \E do \in {"choice", "pencil"} : Job(do)
  /\ job' = None
  /\ KeyLands("press", job.g, job.rev, IF job.do = "choice" THEN "choice" ELSE "digit", job.meant)
  /\ EndsActed(job.m, "done")
  /\ bridge' = Refreshed(IF job.do = "pencil" THEN [bridge EXCEPT !.typing = [g |-> job.g, rev |-> job.rev, question |-> job.meant]] ELSE bridge)
  /\ chat' = Repost(chat, bridge')

(* The reaction that failed ends the handler before the wait is noted.    *)
PressUnmarked ==
  /\ \E do \in {"choice", "pencil"} : job # None /\ job.do = do
  /\ ~Denied(job) /\ job' = None /\ Fails
  /\ KeyLands("press", job.g, job.rev, IF job.do = "choice" THEN "choice" ELSE "digit", job.meant)
  /\ EndsActed(job.m, "done")
  /\ UNCHANGED <<opt, known, news, grant, chat, bridge, moving, queue, tick>>

SendKeys ==
  /\ \E do \in {"enter", "esc"} : Job(do)
  /\ job' = None /\ UNCHANGED <<chat, bridge>>
  /\ KeyLands("keys", job.g, job.rev, job.do, 0)
  /\ EndsActed(job.m, "done")

Close ==
  /\ Job("confirm") /\ job' = None /\ UNCHANGED <<chat, bridge>>
  /\ Changes(To("exited", "input", 0)) /\ Effect("close", job.g, job.rev, "exit", 0)
  /\ EndsActed(job.m, "done")

Forward ==
  /\ Job("usage") /\ job' = None /\ UNCHANGED chat
  /\ IF pane.status = "blocked" THEN Ends({job.m}, "refused") /\ Same /\ Still /\ UNCHANGED bridge
     ELSE /\ TextLands("forward", job.g, job.rev, "usage", 0)
          /\ EndsActed(job.m, "done")
          /\ bridge' = [bridge EXCEPT !.follow = Append(@, [g |-> job.g, rev |-> job.rev])]

(* prompt: refused by an agent at a dialog, where a text goes in only      *)
(* through the entry the recipient was shown.                              *)
Shown(g) ==
  LET b == chat[g].button IN
  IF b = None THEN 0 ELSE IF b.entry /\ b.seq = known.seq THEN b.question ELSE 0

Prompt ==
  /\ Job("prompt") /\ UNCHANGED <<chat, bridge>>
  /\ IF pane.status # "blocked"
     THEN TextLands("prompt", job.g, job.rev, "plain", 0) /\ EndsActed(job.m, "done") /\ job' = None
     ELSE /\ Same /\ Still
          /\ IF job.meant = 0 \/ bridge.answer # None THEN Ends({job.m}, "refused") /\ job' = None
             ELSE job' = [job EXCEPT !.do = "look"] /\ UNCHANGED msg

StartAnswer ==
  /\ Job("look") /\ UNCHANGED <<chat, bridge>> /\ Same /\ Still
  /\ IF Open(job.meant) \/ Waits(job.meant)
     THEN job' = [job EXCEPT !.do = IF Open(job.meant) THEN "type" ELSE "focus"] /\ UNCHANGED msg
     ELSE Ends({job.m}, "refused") /\ job' = None

FocusEntry ==
  /\ Job("focus") /\ job' = None
  /\ KeyLands("answer", job.g, job.rev, "digit", job.meant)
  /\ bridge' = [bridge EXCEPT !.answer = [g |-> job.g, rev |-> job.rev, m |-> job.m, action |-> job.action, question |-> job.meant, polls |-> 0]]
  /\ UNCHANGED <<chat, msg>>

TypeAnswer ==
  /\ Job("type") /\ job' = None /\ UNCHANGED <<chat, bridge>>
  /\ TextLands("answer", job.g, job.rev, "plain", job.meant)
  /\ EndsActed(job.m, "done")

(* deliver: the text of a wait, whatever the agent shows.                  *)
Deliver ==
  /\ Job("deliver") /\ job' = None /\ UNCHANGED <<chat, bridge>>
  /\ TextLands("pencil", job.g, job.rev, "plain", job.meant)
  /\ EndsActed(job.m, "done")
---------------------------------------------------------------------------
(* Telegram: a recipient writes; what is read is confirmed by the next     *)
(* request, and comes again after a restart that came before it.           *)
Ref(g, kind) ==
  CASE kind \in {"choice", "pencil"} -> chat[g].phone.n
    [] kind = "confirm" -> chat[g].ask
    [] OTHER -> 0

Writes(g, kind) ==
  /\ g \in opt.writers /\ kind \in opt.kinds /\ Len(msg) < opt.messages
  /\ kind = "choice" => chat[g].phone.n # 0
  /\ kind = "pencil" => chat[g].phone.entry
  /\ kind = "confirm" => chat[g].ask # 0
  /\ msg' = Append(msg, [g |-> g, kind |-> kind, n |-> Ref(g, kind), fate |-> "sent", acts |-> 0,
                         held |-> opt.restarts > 0, old |-> FALSE])
  /\ Still /\ UNCHANGED <<opt, agent, pane, grant, chat, bridge, moving, queue, job, tick, spent>>

(* onPrivate: what the limits or a full queue refuse is told so.           *)
Poll(m) ==
  /\ m \in DOMAIN msg /\ msg[m].fate = "sent"
  /\ \A n \in 1..(m - 1) : msg[n].fate # "sent"
  /\ IF Len(queue) < MaxQueue THEN queue' = Append(queue, m) /\ Ends({m}, "queued")
     ELSE UNCHANGED queue /\ Ends({m}, "busy")
  /\ Still /\ UNCHANGED <<opt, agent, pane, grant, chat, bridge, moving, job, tick, spent>>

Confirm ==
  /\ \E m \in DOMAIN msg : msg[m].held /\ msg[m].fate # "sent"
  /\ msg' = [m \in DOMAIN msg |-> IF msg[m].fate = "sent" THEN msg[m] ELSE [msg[m] EXCEPT !.held = FALSE]]
  /\ Still /\ UNCHANGED <<opt, agent, pane, grant, chat, bridge, moving, queue, job, tick, spent>>
---------------------------------------------------------------------------
(* Handle.                                                                 *)
StaleSafe == Reads
\* A mutant: what is delivered again is handled again.
StaleNever(m) == msg[m].n > spent.minted
Stale(m) == msg[m].old

Told(m, fate) == Ends({m}, fate) /\ UNCHANGED <<grant, chat, bridge, moving, job>>

\* A mutant: any question will do.
StandsAny(b) == known.status = "blocked" /\ b # None
Stands(b) == known.status = "blocked" /\ known.seq = b.seq

(* A press counts once, and only for the buttons that were shown last.     *)
PressOf(m) ==
  LET r == msg[m]
      b == chat[r.g].button IN
  IF b = None THEN Told(m, "stale")
  ELSE IF Stale(m) \/ b.n # r.n THEN Told(m, "stale")
  ELSE IF ~Stands(b)
  THEN /\ Ends({m}, "stale") /\ chat' = [chat EXCEPT ![r.g].button = None]
       /\ UNCHANGED <<grant, bridge, moving, job>>
  ELSE Starts(m, r.g, b.rev, Act(r.kind, "dialog", b.question)) /\ UNCHANGED <<grant, moving>>

PressClose(m) ==
  LET r == msg[m] IN
  LET of == {c \in chat[r.g].closing : c.n = r.n} IN
  IF Stale(m) \/ of = {} THEN Told(m, "stale")
  ELSE Starts(m, r.g, (CHOOSE c \in of : TRUE).rev, Act("confirm", "close", 0)) /\ UNCHANGED <<grant, moving>>

(* PrivateDashboard.Local.                                                 *)
Local(m) ==
  LET g == msg[m].g IN
  IF Stale(m) THEN Told(m, "stale")
  ELSE IF ~Begin(g, grant[g].rev, "preferences") THEN Told(m, "denied")
  ELSE /\ grant' = [grant EXCEPT ![g].paused = msg[m].kind = "pause"]
       /\ IF msg[m].kind = "resume"
          THEN /\ bridge' = Refreshed(bridge)
               /\ chat' = [Repost(chat, bridge') EXCEPT ![g].since = IF known.status = "blocked" THEN @ ELSE pane.seq]
          ELSE UNCHANGED <<bridge, chat>>
       /\ Ends({m}, "done") /\ UNCHANGED <<moving, job>>

(* Only who pressed the text button writes the answer.                     *)
Other(g, rev) == bridge.typing # None /\ (bridge.typing.g # g \/ bridge.typing.rev # rev)

Plain(m, g, rev) ==
  Starts(m, g, rev, IF bridge.typing = None THEN Act("prompt", "prompt", Shown(g))
                    ELSE Act("deliver", "prompt", bridge.typing.question))

(* Downloads and repository commands, as many as there are slots.          *)
Async(m, g, rev, kind) ==
  IF Cardinality({t \in moving : t.at = "running"}) < Slots
  THEN moving' = moving \cup {[m |-> m, g |-> g, rev |-> rev, kind |-> kind, at |-> "running"]} /\ Ends({m}, "waiting")
  ELSE UNCHANGED moving /\ Ends({m}, "busy")

(* An album is sent with its first part.                                   *)
Part(m, g, rev) ==
  IF \E a \in bridge.albums : a.g = g /\ a.rev = rev THEN UNCHANGED bridge /\ Ends({m}, "joined")
  ELSE bridge' = [bridge EXCEPT !.albums = @ \cup {[g |-> g, rev |-> rev, m |-> m]}] /\ Ends({m}, "waiting")

Command(m) ==
  LET kind == msg[m].kind
      g == msg[m].g IN
  LET rev == grant[g].rev IN
  IF ~Live THEN Told(m, "refused")
  ELSE IF kind = "plain" /\ Other(g, rev) THEN Told(m, "refused")
  ELSE IF Stale(m) /\ kind \notin StaleSafe THEN Told(m, "stale")
  ELSE IF ~Begin(g, rev, Action(kind)) THEN Told(m, "denied")
  ELSE CASE kind = "plain" -> Plain(m, g, rev) /\ UNCHANGED <<grant, moving>>
         [] kind = "keys" -> Starts(m, g, rev, Act("enter", "keys", 0)) /\ UNCHANGED <<grant, moving>>
         [] kind = "usage" /\ known.status \in {"working", "blocked"} -> Told(m, "refused")
         [] kind = "usage" /\ known.status \notin {"working", "blocked"} ->
              Starts(m, g, rev, Act("usage", "forward", 0)) /\ UNCHANGED <<grant, moving>>
         [] kind = "screen" -> Told(m, "done")
         [] kind = "close" ->
              /\ chat' = [chat EXCEPT ![g].closing = @ \cup {[n |-> spent.minted + 1, rev |-> rev]}, ![g].ask = spent.minted + 1]
              /\ Ends({m}, "done") /\ UNCHANGED <<grant, bridge, moving, job>>
         [] kind \in {"file", "git"} -> Async(m, g, rev, kind) /\ UNCHANGED <<grant, chat, bridge, job>>
         [] kind = "part" -> Part(m, g, rev) /\ UNCHANGED <<grant, chat, moving, job>>

Handle ==
  /\ Idle /\ queue # <<>> /\ queue' = Tail(queue)
  /\ LET m == Head(queue) IN
     /\ CASE msg[m].kind \in {"choice", "pencil"} -> PressOf(m)
          [] msg[m].kind = "confirm" -> PressClose(m)
          [] msg[m].kind \in {"pause", "resume"} -> Local(m)
          [] OTHER -> Command(m)
     /\ spent' = IF msg[m].kind = "close" THEN [spent EXCEPT !.minted = @ + 1] ELSE spent
  /\ Still /\ UNCHANGED <<opt, agent, pane, tick>>

(* A download runs beside the bridge, and comes back to it.                *)
Transfer(t) ==
  /\ t.at = "running"
  /\ Still /\ UNCHANGED <<opt, agent, pane, grant, chat, bridge, queue, job, tick>>
  /\ IF Begin(t.g, t.rev, Action(t.kind))
     THEN /\ \/ Succeeds /\ moving' = (moving \ {t}) \cup {[t EXCEPT !.at = "fetched"]}
             \/ Fails /\ moving' = (moving \ {t}) \cup {[t EXCEPT !.at = "failed"]}
          /\ UNCHANGED msg
     ELSE moving' = moving \ {t} /\ Ends({t.m}, "denied") /\ Succeeds

Result(t) ==
  /\ Idle /\ t.at # "running" /\ moving' = moving \ {t}
  /\ IF t.at = "fetched" /\ t.kind # "git" THEN Starts(t.m, t.g, t.rev, Act("prompt", "attachment", Shown(t.g)))
     ELSE Ends({t.m}, IF t.at = "failed" THEN "failed" ELSE "done") /\ UNCHANGED <<chat, bridge, job>>
  /\ Still /\ UNCHANGED <<opt, agent, pane, grant, queue, tick, spent>>
---------------------------------------------------------------------------
(* The tick: what is due, in this order.  While the sync switch is off a   *)
(* post that is due is thrown away, and the overviews of who has a grant   *)
(* stay as they are.                                                       *)
Automatic == spent.switches % 2 = 0
\* A mutant: a second denial of the same grant is not noticed.
Denials == {g \in Grants : grant[g].state = "revoked" /\ chat[g].noticed # grant[g].rev}

Content(g) == IF Live /\ grant[g].state = "active" THEN [paused |-> grant[g].paused, status |-> known.status] ELSE None
\* A mutant: the overview of a grant that was denied is left as it was.
DashboardDue ==
  {g \in Grants :
     /\ Has("dashboard") /\ (Automatic \/ grant[g].state # "active") /\ chat[g].service # "creating" /\ chat[g].dash # Content(g)
     /\ chat[g].service = "none" => Content(g) # None}

Always == (IF bridge.answer # None THEN {"answers"} ELSE {})
          \cup (IF Denials # {} THEN {"denials"} ELSE {})
          \cup (IF bridge.typing # None THEN {"typing"} ELSE {})
          \cup (IF DashboardDue # {} THEN {"dashboard"} ELSE {})
Timed == (IF bridge.post # None THEN {"output"} ELSE {})
         \cup (IF bridge.follow # <<>> THEN {"follow"} ELSE {})
         \cup (IF bridge.albums # {} THEN {"albums"} ELSE {})

(* A tick that would find nothing to do is left out.                       *)
Worthwhile == Denials # {} \/ DashboardDue # {} \/ bridge.answer # None
              \/ (bridge.typing # None /\ ~Begin(bridge.typing.g, bridge.typing.rev, "dialog"))

Tick(due) ==
  /\ Idle /\ due \subseteq Timed /\ (due # {} \/ Worthwhile)
  /\ tick' = Always \cup due
  /\ Still /\ UNCHANGED <<opt, agent, pane, grant, chat, bridge, moving, queue, msg, job, spent>>

Order == <<"answers", "denials", "typing", "output", "dashboard", "follow", "albums">>
Stage(s) ==
  /\ job = None /\ s \in tick
  /\ \A i, j \in 1..Len(Order) : Order[j] = s /\ i < j => Order[i] \notin tick
  /\ UNCHANGED <<opt, agent, pane, grant, queue>> /\ Still
Over(s) == tick' = tick \ {s}

(* The answer is typed when the entry is open, under a fresh admission.    *)
Typing(a) == [Act("type", a.action, a.question) EXCEPT !.m = a.m, !.g = a.g, !.rev = a.rev]

\* A mutant: an answer is polled for ever.
PolledFor(a) == a
Polled(a) == [a EXCEPT !.polls = @ + 1]
PollAnswer ==
  LET a == bridge.answer IN
  /\ Stage("answers") /\ Over("answers") /\ UNCHANGED <<chat, moving>>
  /\ IF ~Begin(a.g, a.rev, a.action)
     THEN bridge' = [bridge EXCEPT !.answer = None] /\ Ends({a.m}, "denied") /\ Succeeds /\ UNCHANGED job
     ELSE \/ /\ Open(a.question) /\ Succeeds
             /\ bridge' = [bridge EXCEPT !.answer = None] /\ job' = Typing(a) /\ UNCHANGED msg
          \/ /\ (~Open(a.question) /\ Succeeds) \/ Fails
             /\ UNCHANGED job
             /\ IF a.polls + 1 < MaxPolls THEN bridge' = [bridge EXCEPT !.answer = Polled(a)] /\ UNCHANGED msg
                ELSE bridge' = [bridge EXCEPT !.answer = None] /\ Ends({a.m}, "refused")

(* A denial is told once, in the topic that had the access.                *)
Notice(g) ==
  /\ Stage("denials") /\ g \in Denials
  /\ tick' = IF Denials = {g} THEN tick \ {"denials"} ELSE tick
  /\ UNCHANGED <<bridge, moving, msg, job>>
  /\ \/ Succeeds /\ chat' = [chat EXCEPT ![g].noticed = grant[g].rev, ![g].button = None, ![g].closing = {}, ![g].told = grant[g].rev]
     \/ Fails /\ chat' = [chat EXCEPT ![g].noticed = grant[g].rev, ![g].button = None, ![g].closing = {}]

DropTyping ==
  /\ Stage("typing") /\ Over("typing") /\ Succeeds
  /\ bridge' = IF bridge.typing = None THEN bridge
               ELSE IF Begin(bridge.typing.g, bridge.typing.rev, "dialog") THEN bridge ELSE [bridge EXCEPT !.typing = None]
  /\ UNCHANGED <<chat, moving, msg, job>>

(* deliver: the screen is read once, for as many mirrors as a tick takes.  *)
Origins == {p \in bridge.post.grants : Begin(p[1], p[2], "output") /\ ~grant[p[1]].paused}
Batches(of) == {b \in SUBSET of : Cardinality(b) = (IF Cardinality(of) < Batch THEN Cardinality(of) ELSE Batch)}
Screen == [look |-> pane.seq, question |-> pane.question, view |-> pane.view]

Send(to, screen) ==
  IF to = {} THEN UNCHANGED job
  ELSE job' = [do |-> "send", to |-> to, screen |-> screen, status |-> bridge.post.status, seq |-> bridge.post.seq]

\* A mutant: the rest of the mirrors is forgotten.
RemainsNone(of, screen) == bridge' = [bridge EXCEPT !.post = None]
Remains(of, screen) ==
  bridge' = [bridge EXCEPT !.post = IF of = {} THEN None ELSE [@ EXCEPT !.grants = of, !.captured = screen]]

Captured ==
  \E now \in Batches(Origins) :
    LET screen == IF bridge.post.captured = None THEN Screen ELSE bridge.post.captured IN
    Remains(Origins \ now, screen) /\ Send(now, screen)

(* waitForReply: mirrors that show replies wait while the turn goes on.    *)
Replying == Has("replies") /\ bridge.post.status = "done" /\ bridge.post.captured = None
Patient == {p \in Origins : p[1] \notin opt.screens}
WaitForReply ==
  /\ Replying /\ Patient # {} /\ bridge.post.attempts < MaxRetries
  /\ \E now \in Batches(Origins \ Patient) :
       /\ bridge' = [bridge EXCEPT !.post.grants = Origins \ now, !.post.attempts = @ + 1]
       /\ Send(now, Screen)

Output ==
  /\ Stage("output") /\ Over("output") /\ UNCHANGED <<chat, moving, msg>>
  /\ \/ Automatic /\ Origins # {} /\ Live /\ Succeeds /\ (Captured \/ WaitForReply)
     \/ /\ ~Automatic /\ spent' = [spent EXCEPT !.unseen = pane.seq]
        /\ bridge' = [bridge EXCEPT !.post = None] /\ UNCHANGED job
     \/ /\ Automatic /\ (Origins = {} \/ ~Live) /\ Succeeds
        /\ bridge' = [bridge EXCEPT !.post = None] /\ UNCHANGED job
     \/ /\ Automatic /\ Origins # {} /\ Live /\ bridge.post.captured = None /\ Fails
        /\ bridge' = [bridge EXCEPT !.post = None] /\ UNCHANGED job

(* A post with the buttons of the dialog, unless it has been posted.       *)
Buttons(g, rev) ==
  IF job.status = "blocked" /\ job.screen.view \in {"menu", "entry"} /\ Permits(g, "dialog")
  THEN [n |-> spent.minted + 1, rev |-> rev, seq |-> job.seq, question |-> job.screen.question, entry |-> job.screen.view = "entry"]
  ELSE None

Posted(g, rev, b) ==
  [chat EXCEPT ![g].last = [look |-> job.screen.look, rev |-> rev], ![g].shown = job.screen.look, ![g].button = b,
               ![g].phone = IF b = None THEN @ ELSE [n |-> b.n, entry |-> b.entry]]

SendPost(p) ==
  LET g == p[1]
      rev == p[2] IN
  /\ job # None /\ job.do = "send" /\ p \in job.to
  /\ job' = IF job.to = {p} THEN None ELSE [job EXCEPT !.to = @ \ {p}]
  /\ Still /\ UNCHANGED <<opt, agent, pane, grant, bridge, moving, queue, msg, tick>>
  /\ IF chat[g].last = [look |-> job.screen.look, rev |-> rev] THEN UNCHANGED chat /\ Succeeds
     ELSE \/ /\ Begin(g, rev, "output") /\ chat' = Posted(g, rev, Buttons(g, rev))
             /\ spent' = IF Buttons(g, rev) = None THEN spent ELSE [spent EXCEPT !.minted = @ + 1]
          \/ ~Begin(g, rev, "output") /\ chat' = [chat EXCEPT ![g].button = None] /\ Succeeds
          \/ Fails /\ chat' = [chat EXCEPT ![g].button = None]

(* The recipient's overview, in a topic that is recorded before it is made.*)
Dashboard(g) ==
  /\ Stage("dashboard") /\ g \in DashboardDue
  /\ tick' = IF DashboardDue = {g} THEN tick \ {"dashboard"} ELSE tick
  /\ UNCHANGED <<bridge, moving, msg>>
  /\ IF chat[g].service = "none"
     THEN /\ chat' = [chat EXCEPT ![g].service = "creating"] /\ Succeeds
          /\ job' = [do |-> "service", g |-> g, content |-> Content(g)]
     ELSE /\ UNCHANGED job
          /\ \/ Succeeds /\ chat' = [chat EXCEPT ![g].dash = Content(g)]
             \/ Fails /\ UNCHANGED chat

Service ==
  /\ job # None /\ job.do = "service" /\ job' = None
  /\ Still /\ UNCHANGED <<opt, agent, pane, grant, bridge, moving, queue, msg, tick>>
  /\ \/ Succeeds /\ chat' = [chat EXCEPT ![job.g].service = "there", ![job.g].dash = IF Content(job.g) = job.content THEN job.content ELSE @]
     \/ Fails /\ UNCHANGED chat

DashboardOver ==
  /\ Stage("dashboard") /\ DashboardDue = {} /\ Over("dashboard")
  /\ Succeeds /\ UNCHANGED <<chat, bridge, moving, msg, job>>

(* The screen of a command that opened an overlay, and its escape.         *)
Follow ==
  LET f == Head(bridge.follow) IN
  /\ Stage("follow") /\ UNCHANGED moving /\ Succeeds
  /\ IF bridge.follow = <<>> THEN Over("follow") /\ UNCHANGED <<bridge, chat, msg, job>>
     ELSE /\ tick' = IF Len(bridge.follow) = 1 THEN tick \ {"follow"} ELSE tick
          /\ IF Begin(f.g, f.rev, "keys")
             THEN /\ bridge' = [Invalidated(bridge) EXCEPT !.follow = Tail(@)] /\ chat' = WithoutButtons(chat)
                  /\ Ends(Dropped, "dropped")
                  /\ job' = [Act("esc", "keys", 0) EXCEPT !.g = f.g, !.rev = f.rev]
             ELSE bridge' = [bridge EXCEPT !.follow = Tail(@)] /\ UNCHANGED <<chat, msg, job>>

SendAlbum(a) ==
  /\ Stage("albums") /\ a \in bridge.albums
  /\ bridge' = [bridge EXCEPT !.albums = @ \ {a}]
  /\ tick' = IF bridge.albums = {a} THEN tick \ {"albums"} ELSE tick
  /\ Async(a.m, a.g, a.rev, "file") /\ Succeeds /\ UNCHANGED <<chat, job>>
---------------------------------------------------------------------------
(* The registry hears of the pane, and the bridge of the registry.         *)
Hear ==
  /\ heard # <<>> /\ Len(news) < MaxHeard
  /\ heard' = Tail(heard) /\ known' = Head(heard)
  /\ news' = Append(news, [kind |-> "changed", status |-> Head(heard).status, seq |-> Head(heard).seq])
  /\ Still /\ UNCHANGED <<opt, pane, grant, chat, bridge, moving, queue, msg, job, tick, spent>>

Observe ==
  /\ Idle /\ news # <<>> /\ news' = Tail(news)
  /\ bridge' = Observed(bridge, Head(news).kind, Head(news).status, Head(news).seq)
  /\ Still /\ UNCHANGED <<opt, pane, heard, known, grant, chat, moving, queue, msg, job, tick, spent>>

(* Herdr announces again what the registry knows (a new label, say).       *)
Repeats ==
  /\ Has("repeats") /\ spent.repeats < 1 /\ Len(news) < MaxHeard /\ Live
  /\ news' = Append(news, [kind |-> "changed", status |-> known.status, seq |-> known.seq])
  /\ spent' = [spent EXCEPT !.repeats = @ + 1]
  /\ Still /\ UNCHANGED <<opt, pane, heard, known, grant, chat, bridge, moving, queue, msg, job, tick>>
---------------------------------------------------------------------------
(* The agent, its user at the desk and the owner.                          *)
Agent(next) ==
  /\ Has("races") \/ Idle
  /\ Len(heard) < MaxHeard /\ pane.status # "exited"
  /\ Changes(next)
  /\ Still /\ UNCHANGED <<opt, known, news, grant, chat, bridge, moving, queue, msg, job, tick>>

Asks ==
  /\ pane.status = "working" /\ spent.questions < opt.questions
  /\ \E view \in opt.views : Agent(To("blocked", view, spent.questions + 1))
  /\ spent' = [spent EXCEPT !.questions = @ + 1]
TurnEnds == pane.status = "working" /\ Agent(To("idle", "input", 0)) /\ Succeeds
Focuses == pane.view = "focusing" /\ Agent([pane EXCEPT !.view = "open"]) /\ Succeeds
DeskAnswers == Has("desk") /\ pane.view # "input" /\ Agent(IF Dialog THEN Works ELSE To("idle", "input", 0)) /\ Succeeds
DeskPrompts ==
  /\ pane.status = "idle" /\ spent.turns < opt.turns
  /\ Agent(Works) /\ spent' = [spent EXCEPT !.turns = @ + 1]
Exits == Has("exits") /\ Agent(To("exited", "input", 0)) /\ Succeeds

(* The owner's own press or message ends the waits of the recipients.      *)
OwnerActs ==
  /\ Has("owner") /\ Idle /\ Dialog
  /\ bridge' = Invalidated(bridge) /\ chat' = WithoutButtons(chat)
  /\ Changes(Works) /\ Ends(Dropped, "dropped")
  /\ Still /\ UNCHANGED <<opt, known, news, grant, moving, queue, job, tick, spent>>

OwnerDenies(g) ==
  /\ grant[g].state = "active" /\ spent.denials < opt.denials
  /\ grant' = [grant EXCEPT ![g].state = "revoked", ![g].rev = @ + 1]
  /\ spent' = [spent EXCEPT !.denials = @ + 1]
  /\ Still /\ UNCHANGED <<opt, agent, pane, chat, bridge, moving, queue, msg, job, tick>>

OwnerGrants(g) ==
  /\ Idle /\ grant[g].state = "revoked" /\ Live
  /\ grant' = [grant EXCEPT ![g].state = "active", ![g].rev = @ + 1]
  /\ chat' = [chat EXCEPT ![g].since = pane.seq]
  /\ Still /\ UNCHANGED <<opt, agent, pane, bridge, moving, queue, msg, job, tick, spent>>

Switch ==
  /\ spent.switches < opt.switches /\ spent' = [spent EXCEPT !.switches = @ + 1]
  /\ Still /\ UNCHANGED <<opt, agent, pane, grant, chat, bridge, moving, queue, msg, job, tick>>

(* A restart: the policy is on disk, and of the chats what they show.      *)
Fresh(working) == [post |-> None, working |-> working, typing |-> None, answer |-> None, follow |-> <<>>, albums |-> {}]

Restart ==
  /\ spent.restarts < opt.restarts /\ spent' = [spent EXCEPT !.restarts = @ + 1]
  /\ pane.status # "exited" /\ heard' = <<>> /\ news' = <<>>
  /\ known' = [status |-> pane.status, seq |-> pane.seq]
  /\ \E kept \in SUBSET Grants :
       chat' = [g \in Grants |-> [chat[g] EXCEPT !.button = None, !.closing = {}, !.noticed = 0, !.since = pane.seq,
                                                !.last = IF g \in kept THEN @ ELSE None]]
  /\ bridge' = Fresh(pane.status = "working")
  /\ moving' = {} /\ queue' = <<>> /\ job' = None /\ tick' = {}
  /\ msg' = [m \in DOMAIN msg |->
               IF msg[m].held THEN [msg[m] EXCEPT !.fate = "sent", !.old = TRUE]
               ELSE [msg[m] EXCEPT !.fate = IF @ \in {"queued", "waiting"} THEN "lost" ELSE @]]
  /\ Still /\ UNCHANGED <<opt, pane, grant>>
---------------------------------------------------------------------------
Empty == [last |-> None, button |-> None, closing |-> {}, ask |-> 0, phone |-> [n |-> 0, entry |-> FALSE],
          shown |-> 0, told |-> 0, noticed |-> 0, since |-> 0, dash |-> None, service |-> "none"]

Init ==
  /\ opt \in Worlds
  /\ \E status \in {"idle", "working"} :
       /\ pane = [status |-> status, view |-> "input", question |-> 0, seq |-> 0]
       /\ known = [status |-> status, seq |-> 0] /\ bridge = Fresh(status = "working")
  /\ heard = <<>> /\ news = <<>>
  /\ grant = [g \in Grants |-> IF g \in opt.shared THEN [state |-> "active", rev |-> 1, paused |-> FALSE]
                                ELSE [state |-> "none", rev |-> 0, paused |-> FALSE]]
  /\ chat = [g \in Grants |-> Empty]
  /\ moving = {} /\ queue = <<>> /\ msg = <<>> /\ job = None /\ tick = {} /\ effect = None
  /\ spent = [questions |-> 0, turns |-> 0, denials |-> 0, failures |-> 0, restarts |-> 0, repeats |-> 0, minted |-> 0,
            switches |-> 0, unseen |-> 0]

Jobs ==
  \/ JobDenied \/ JobFails \/ Press \/ PressUnmarked \/ SendKeys \/ Close \/ Forward
  \/ Prompt \/ StartAnswer \/ FocusEntry \/ TypeAnswer \/ Deliver \/ Service
  \/ (job # None /\ job.do = "send" /\ \E p \in job.to : SendPost(p))
Stages ==
  \/ PollAnswer \/ DropTyping \/ Output \/ DashboardOver \/ Follow
  \/ \E g \in Grants : Notice(g) \/ Dashboard(g)
  \/ \E a \in bridge.albums : SendAlbum(a)
Telegram == (\E g \in Grants, kind \in Kinds : Writes(g, kind)) \/ (\E m \in 1..MaxMessages : Poll(m)) \/ Confirm
Transfers == \E t \in moving : Transfer(t) \/ Result(t)
World ==
  \/ Asks \/ TurnEnds \/ Focuses \/ DeskAnswers \/ DeskPrompts \/ Exits \/ OwnerActs \/ Repeats \/ Switch \/ Restart
  \/ \E g \in Grants : OwnerDenies(g) \/ OwnerGrants(g)

Next == Jobs \/ Stages \/ (\E due \in SUBSET Timed : Tick(due)) \/ Handle \/ Observe \/ Hear \/ Transfers \/ Telegram \/ World
Spec == Init /\ [][Next]_vars

(* The bridge serves all it waits for, ticks come with what is due, and    *)
(* the loop hears Herdr and Telegram.  Transfers have deadlines.           *)
Fairness ==
  /\ WF_vars(Jobs) /\ WF_vars(Stages) /\ WF_vars(Tick(Timed)) /\ WF_vars(Handle) /\ WF_vars(Observe) /\ WF_vars(Hear)
  /\ WF_vars(Transfers) /\ WF_vars(\E m \in 1..MaxMessages : Poll(m))
FairSpec == Spec /\ Fairness
---------------------------------------------------------------------------
(* What a recipient does to the agent is done under the grant as it is     *)
(* now, by one who may: after a denial nothing of what waited goes in.     *)
ActsUnderGrant ==
  effect # None => Active(effect.g, effect.rev) /\ effect.g \notin opt.readers

(* A press, and a text for an entry, answer the question they were meant   *)
(* for, unless the news of another had not come yet.                       *)
AnswersWhatItShowed ==
  effect # None /\ ~Has("races") /\ effect.by \in {"press", "answer"} =>
    effect.question = effect.meant \/ (effect.by = "press" /\ effect.late)

(* No message acts twice, though Telegram delivers it again.               *)
ActsOnce == \A m \in DOMAIN msg : msg[m].acts <= 1

(* A mirror has not shown what the agent asks, or the end of its turn,     *)
(* since the access began, the daemon started or the recipient resumed;    *)
(* what came while sync was off is thrown away.                            *)
Behind(g) ==
  /\ opt.failures = 0 /\ pane.status \in {"blocked", "idle"} /\ chat[g].since < pane.seq /\ spent.unseen < pane.seq
  /\ grant[g].state = "active" /\ ~grant[g].paused /\ chat[g].shown < pane.seq
Untold(g) == opt.failures = 0 /\ grant[g].state = "revoked" /\ chat[g].told # grant[g].rev
Outdated(g) ==
  /\ Has("dashboard") /\ opt.failures = 0 /\ opt.restarts = 0 /\ chat[g].dash # Content(g)
  /\ Automatic \/ grant[g].state # "active"

(* If no call fails, what a recipient sees catches up: an active mirror    *)
(* that is not paused shows a question that stands and the end of a turn,  *)
(* unless it was there before the access, the start of the daemon or a     *)
(* resume, or its post was thrown away while sync was off; a denial is     *)
(* told in its topic; and, without a restart, the overview says what is    *)
(* shared and how the agent is, once sync is on.                           *)
MirrorsSettle == \A g \in Grants : []<>~(Behind(g) \/ Untold(g) \/ Outdated(g))

(* What a recipient sent comes to an end.                                  *)
Unanswered(m) == m \in DOMAIN msg /\ msg[m].fate \in {"sent", "queued", "waiting"}
GuestAnswered == \A m \in 1..MaxMessages : []<>~Unanswered(m)
=============================================================================
