------------------------------- MODULE Replies ------------------------------
(***************************************************************************)
(* What an agent says, in its topic: the questions it waits on, with their *)
(* buttons, and its answers when a turn ends (app/outbound.go, with the    *)
(* timers of app/debounce.go).                                             *)
(*                                                                         *)
(* An agent runs in a pane.  The registry's view of it follows the pane    *)
(* one notice later, and the bridge learns of the view through a queue of  *)
(* events; a press, a prompt and the catch-up come by another queue and    *)
(* may overtake them.  The bridge is one goroutine, so a job of it is one  *)
(* step: it goes by the view and reads the screen of the pane, which may   *)
(* be ahead of the view.                                                   *)
(*                                                                         *)
(* A screen is a question, with the ticks of its boxes, or the text of a   *)
(* turn.  What is only a failed edit of a keyboard is left out: the code   *)
(* logs it.                                                                *)
(***************************************************************************)
EXTENDS Naturals, Sequences, FiniteSets

CONSTANTS AgentKeys, First,      \* the agent's keys; the first one it has
          None, Gone,
          Multi,                 \* questions with boxes to tick
          Worlds,                \* settings, and what happens under them
          MaxRetries,            \* replyPendingRetries
          MaxQuestions, MaxEvents   \* bounds

(* A world: the modes of screen posts that are used, the options that are  *)
(* on, whether the agent changes its key, and how often things happen.     *)
ASSUME RepliesAssumption ==
  /\ First \in AgentKeys /\ None \notin AgentKeys /\ Gone \notin AgentKeys
  /\ {MaxRetries, MaxQuestions, MaxEvents} \subseteq Nat
  /\ \A w \in Worlds :
       /\ w.modes \subseteq {"ring", "silent", "held", "stopped"}
       /\ w.options \subseteq {"reannounce", "delay", "pager", "formatted", "rekeys", "returns", "gaps"}
       /\ w.questions <= MaxQuestions
       /\ {w.questions, w.turns, w.prompts, w.presses, w.repeats, w.changes, w.failures} \subseteq Nat

VARIABLES
  opt,       \* the world
  pane,      \* the agent: its status, turn, question (0: none) and ticks
  view,      \* the registry's: key, status, number of the last change; or Gone
  events,    \* on their way to the bridge
  mode,      \* the sync switch, what quiet does to posts, whether the catch-up waits
  out,       \* what the bridge keeps for each key
  timer,     \* keys whose screen timer runs, and those whose timer has fired
  settle,    \* the same of the turn timer
  pager,     \* whether private chats can be written to
  topic,     \* messages so far, questions shown, what rang last by a post whose
             \* answer came, and history: questions kept back, with the reason
  spent      \* what the world has done
vars == <<opt, pane, view, events, mode, out, timer, settle, pager, topic, spent>>
world == <<opt, pane, view, events, mode, spent>>

NoState == [posted |-> None, kb |-> None, announced |-> FALSE, turn |-> None,
            capture |-> None, refresh |-> None, typing |-> None, retry |-> None]

Has(option) == option \in opt.options
Posts == IF mode.sync THEN mode.hush ELSE "stopped"

Screen == IF pane.question # 0 THEN <<"question", pane.question, pane.ticks>> ELSE <<"text", pane.turn, 0>>
Asks(text) == text[1] = "question"

(* A Herdr or Telegram call fails.                                         *)
Fails == spent.failures < opt.failures /\ spent' = [spent EXCEPT !.failures = @ + 1]
Succeeds == UNCHANGED spent

---------------------------------------------------------------------------
(* Timers.                                                                 *)
Arm(t, k) == [t EXCEPT !.running = @ \cup {k}]
Cancel(t, k) == [t EXCEPT !.running = @ \ {k}]
Move(t, from, to) == IF from \in t.running THEN [t EXCEPT !.running = (@ \ {from}) \cup {to}] ELSE t
Fired(t, k) == [running |-> t.running \ {k}, due |-> t.due \cup {k}]
TakenOff(t, k) == [t EXCEPT !.due = @ \ {k}]

TimerFires(k) ==
  /\ \/ k \in timer.running /\ timer' = Fired(timer, k) /\ UNCHANGED settle
     \/ k \in settle.running /\ settle' = Fired(settle, k) /\ UNCHANGED timer
  /\ UNCHANGED <<world, out, pager, topic>>

---------------------------------------------------------------------------
(* Turns.                                                                  *)
NewTurn(prompt) == [started |-> 0, prompt |-> prompt, ended |-> FALSE]

(* observeTurn: the turn follows the status; done marks it ended, and work *)
(* after that belongs to another one.                                      *)
TurnAfter(t, status) ==
  CASE status = "working" ->
         IF t = None \/ t.ended THEN [NewTurn(FALSE) EXCEPT !.started = pane.turn]
         ELSE IF t.started = 0 THEN [t EXCEPT !.started = pane.turn] ELSE t
    [] status = "done" /\ t # None -> [t EXCEPT !.ended = TRUE]
    [] OTHER -> t

(* A written reply belongs to the turn unless it is older than its start.  *)
Fresh(t, written) == t # None => written >= t.started

(* PromptSent.                                                             *)
Prompt(k) ==
  /\ view # Gone /\ view.key = k /\ spent.prompts < opt.prompts
  /\ spent' = [spent EXCEPT !.prompts = @ + 1]
  /\ out' = [out EXCEPT ![k].turn =
                IF view.status = "working" THEN [NewTurn(TRUE) EXCEPT !.started = pane.turn] ELSE NewTurn(TRUE)]
  /\ settle' = Cancel(settle, k)
  /\ UNCHANGED <<opt, pane, view, events, mode, timer, pager, topic>>

---------------------------------------------------------------------------
(* Observe: the events, in order.                                          *)

(* The agent moved on: a new turn, or a question.                          *)
Superseded(status) == status \in {"working", "blocked"}

Observed(r, status) ==
  [r EXCEPT !.turn = TurnAfter(@, status),
            !.retry = IF Superseded(status) THEN None ELSE @,
            !.announced = IF status = "blocked" THEN @ ELSE FALSE,
            !.capture = IF status = "blocked" THEN @ ELSE None]


(* The screen timer: armed for a question or an answer, unless the second  *)
(* capture of this question is waited for; else stopped, unless a redraw   *)
(* or a reply is waited for.                                               *)
TimerAfter(t, e, r) ==
  IF (e.kind = "appeared" /\ e.status = "blocked") \/ (e.kind = "changed" /\ e.status \in {"blocked", "done"})
  THEN IF r.capture # None /\ r.capture.seq = e.seq THEN t ELSE Arm(t, e.key)
  ELSE IF r.refresh # None \/ r.retry # None THEN t ELSE Cancel(t, e.key)

(* A mutant: only the turn of a prompt is ended by rest.                   *)
SettleAfterPrompt(t, e, r) ==
  IF e.status = "idle" /\ (IF r.turn = None THEN FALSE ELSE r.turn.prompt) THEN Arm(t, e.key) ELSE Cancel(t, e.key)

SettleAfter(t, e, r) ==
  IF e.status = "idle" THEN (IF r.turn # None THEN Arm(t, e.key) ELSE t) ELSE Cancel(t, e.key)

(* reassociateState: what the old key has moves, unless the new one has    *)
(* its own.                                                                *)
Merged(old, new) == [f \in DOMAIN old |-> IF new[f] = NoState[f] THEN old[f] ELSE new[f]]

(* With a capture whose timer has fired already the timer is started again.*)
MovedTimer(from, to) ==
  IF out[from].capture # None /\ from \notin timer.running THEN Arm(timer, to) ELSE Move(timer, from, to)

ObserveLive(e) ==
  LET moved == e.from # None /\ e.from # e.key
      before == IF moved THEN [out EXCEPT ![e.key] = Merged(out[e.from], out[e.key]), ![e.from] = NoState] ELSE out
      r == Observed(before[e.key], e.status)
      t == IF moved THEN MovedTimer(e.from, e.key) ELSE timer
      s == IF moved THEN Cancel(settle, e.from) ELSE settle
  IN /\ out' = [before EXCEPT ![e.key] = r]
     /\ timer' = TimerAfter(t, e, r)
     /\ settle' = SettleAfter(s, e, r)

(* Observe and Forget.                                                     *)
ObserveGone(e) ==
  /\ out' = [out EXCEPT ![e.key] = NoState]
  /\ timer' = Cancel(timer, e.key) /\ settle' = Cancel(settle, e.key)

Observe ==
  /\ events # <<>> /\ events' = Tail(events)
  /\ LET e == Head(events) IN
       /\ IF e.kind = "gone" THEN ObserveGone(e) ELSE ObserveLive(e)
       /\ topic' = IF e.kind = "gone" \/ e.status # "blocked" THEN [topic EXCEPT !.rung = None] ELSE topic
  /\ UNCHANGED <<opt, pane, view, mode, pager, spent>>

---------------------------------------------------------------------------
(* fire: a timer was due, or the catch-up forces a post.                   *)

Keep(k, r) == out' = [out EXCEPT ![k] = r]

(* retire: the keyboard is taken away, and a wait for text with it.        *)
Retired(r) ==
  IF r.kb = None THEN r
  ELSE [r EXCEPT !.kb = None, !.refresh = None, !.typing = IF r.kb.waiting THEN None ELSE @]

(* In the topic after n messages with this text, the last of which rang.   *)
With(n, text, rung) ==
  [topic EXCEPT !.msgs = @ + n, !.shown = IF Asks(text) THEN @ \cup {text[2]} ELSE @, !.rung = rung]
Silent(n, text) == With(n, text, None)
Rung(n, text) == With(n, text, text)

(* The queue repeats a try whose answer is lost: two messages, the id of    *)
(* the second comes back (Queue.execute).                                  *)
Resends(n) == IF n = 1 THEN Succeeds ELSE Fails

(* A post that is not what was posted last; with a sound in the topic, or  *)
(* from the private chats, of which one was reached, or none for now, or   *)
(* all are closed and the topic rings from then on.  A post that fails may *)
(* have been carried out, or a part of it: then the topic has it, and the  *)
(* bridge does not know.                                                   *)
Posted(k, r, text, buttons, notify) ==
  LET kb(n) == IF buttons /\ Asks(text) THEN [msg |-> topic.msgs + n, question |-> text[2], waiting |-> FALSE] ELSE None
      new(n) == [Retired(r) EXCEPT !.posted = text, !.kb = kb(n)]
  IN \/ Fails /\ Keep(k, Retired(r)) /\ topic' \in {topic, Silent(1, text)} /\ UNCHANGED pager
     \/ \E n \in {1, 2} :
          /\ Resends(n) /\ UNCHANGED pager
          /\ \/ ~notify /\ Keep(k, new(n)) /\ topic' = Silent(n, text)
             \/ notify /\ Keep(k, [new(n) EXCEPT !.announced = TRUE]) /\ topic' = Rung(n, text)
     \/ notify /\ pager /\ Fails /\ Keep(k, new(1)) /\ topic' = Silent(1, text) /\ pager' \in BOOLEAN

Post(k, r, text, buttons, notify, force) ==
  IF r.posted = text /\ ~force
  THEN Keep(k, r) /\ Succeeds /\ UNCHANGED <<topic, pager>>
  ELSE Posted(k, r, text, buttons, notify)

Unread(k, r) == Fails /\ Keep(k, r) /\ UNCHANGED <<topic, pager>>
Skip(k, r) == Succeeds /\ Keep(k, r) /\ UNCHANGED <<topic, pager>>

(* Posts are stopped or held: a question is kept back.                     *)
KeepBack(k, r, status) ==
  /\ Succeeds /\ Keep(k, r) /\ UNCHANGED pager
  /\ topic' = IF status = "blocked" THEN [topic EXCEPT !.unsaid = @ \cup {<<pane.question, Posts>>}] ELSE topic

(* betterCapture: the one that shows the options, else the longer one.     *)
Better(a, b) == IF Asks(a) /\ ~Asks(b) THEN {a} ELSE IF Asks(b) /\ ~Asks(a) THEN {b} ELSE {a, b}

(* The first capture of this question has been taken.                      *)
Second(r) == IF r.capture = None THEN FALSE ELSE r.capture.seq = view.seq

(* A question is posted; with a delay, the better of two captures of it.   *)
PostQuestion(k, r, notify, force, t) ==
  IF force \/ ~Has("delay")
  THEN /\ timer' = t
       /\ Unread(k, [r EXCEPT !.capture = IF force THEN None ELSE @])
          \/ Post(k, [r EXCEPT !.capture = IF force THEN None ELSE @], Screen, TRUE, notify, force)
  ELSE \/ timer' = t /\ Unread(k, r)
       \/ /\ ~Second(r) /\ timer' = Arm(t, k)
          /\ Skip(k, [r EXCEPT !.capture = [text |-> Screen, seq |-> view.seq]])
       \/ /\ Second(r) /\ timer' = t
          /\ \E text \in Better(r.capture.text, Screen) : Post(k, [r EXCEPT !.capture = None], text, TRUE, notify, FALSE)

(* An answer is posted: the reply of the turn, which may not be written    *)
(* yet, or the screen when there is none of this turn.                     *)
PostScreen(k, r, t) == timer' = t /\ (Unread(k, r) \/ Post(k, r, Screen, FALSE, FALSE, FALSE))

PostAnswer(k, r, turn, attempts, t) ==
  \/ PostScreen(k, r, t)
  \/ /\ Has("formatted") /\ attempts < MaxRetries
     /\ timer' = Arm(t, k)
     /\ Skip(k, [r EXCEPT !.retry = [attempts |-> attempts + 1, turn |-> turn]])
  \/ \E written \in {pane.turn, pane.turn - 1} \ {0} :
       /\ Has("formatted") /\ Fresh(turn, written) /\ timer' = t
       /\ Post(k, r, <<"reply", written, 0>>, FALSE, FALSE, FALSE)

(* refreshKeyboard: the message whose box was ticked is drawn again, while *)
(* the screen shows boxes.                                                 *)
Redrawn(k, r) ==
  LET shown == [r EXCEPT !.refresh = None] IN
    /\ Succeeds /\ topic' = [topic EXCEPT !.shown = @ \cup {pane.question}, !.rung = None] /\ UNCHANGED pager
    /\ Keep(k, [shown EXCEPT !.kb.question = pane.question, !.posted = Screen])

(* Everything of fire once the agent is there and its turn has ended.      *)
FireLive(k, r, status, turn, attempts, force, t) ==
  LET redraws == r.refresh # None /\ ~force /\ r.kb # None /\ r.kb.msg = r.refresh
      on == IF force THEN r ELSE [r EXCEPT !.refresh = None]
  IN CASE Posts = "stopped" -> timer' = t /\ KeepBack(k, r, status)
       [] Posts # "stopped" /\ redraws /\ pane.question \in Multi -> timer' = t /\ (Redrawn(k, r) \/ Unread(k, on))
       [] OTHER ->
            CASE status \notin {"blocked", "done"} -> timer' = t /\ Skip(k, [on EXCEPT !.capture = None])
              [] Posts = "held" /\ ~force /\ status \in {"blocked", "done"} -> timer' = t /\ KeepBack(k, on, status)
              [] status = "blocked" /\ (Posts # "held" \/ force) ->
                   PostQuestion(k, on, force \/ Posts = "ring", force, t)
              [] status = "done" /\ Posts # "held" -> PostAnswer(k, on, turn, attempts, t)

(* A done agent ends its turn, before any reason not to post; a retry goes *)
(* on with the turn that has ended, and an agent that has settled in idle  *)
(* is done.                                                                *)
FireScreen(k, force, idle, t, s) ==
  LET retry == out[k].retry
      r == [out[k] EXCEPT !.retry = None]
  IN IF view = Gone \/ view.key # k
     THEN timer' = t /\ settle' = s /\ Skip(k, r)
     ELSE LET status == IF (idle \/ retry # None) /\ view.status = "idle" THEN "done" ELSE view.status
              ends == status = "done" /\ retry = None /\ r.turn # None
          IN /\ settle' = IF ends THEN Cancel(s, k) ELSE s
             /\ FireLive(k, IF ends THEN [r EXCEPT !.turn = None] ELSE r, status,
                         IF retry # None THEN retry.turn ELSE r.turn,
                         IF retry # None THEN retry.attempts ELSE 0, force, t)

ScreenDue(k) ==
  /\ k \in timer.due /\ FireScreen(k, FALSE, FALSE, TakenOff(timer, k), settle)
  /\ UNCHANGED <<opt, pane, view, events, mode>>

(* EndTurn: the agent has stayed idle.                                     *)
EndTurn(k) ==
  /\ k \in settle.due
  /\ IF out[k].turn # None /\ view # Gone /\ view.key = k /\ view.status = "idle"
     THEN FireScreen(k, FALSE, TRUE, timer, TakenOff(settle, k))
     ELSE settle' = TakenOff(settle, k) /\ UNCHANGED <<out, timer, topic, pager, spent>>
  /\ UNCHANGED <<opt, pane, view, events, mode>>

(* A mutant: every question is posted again.                               *)
CatchUpAlways ==
  /\ mode.left /\ mode' = [mode EXCEPT !.left = FALSE]
  /\ IF view # Gone /\ view.status = "blocked" THEN FireScreen(view.key, TRUE, FALSE, timer, settle)
     ELSE UNCHANGED <<out, timer, settle, topic, pager, spent>>
  /\ UNCHANGED <<opt, pane, view, events>>

(* CatchUp: the operator has left; a question that has not rung is posted  *)
(* with a sound.                                                           *)
CatchUp ==
  /\ mode.left /\ mode' = [mode EXCEPT !.left = FALSE]
  /\ IF view # Gone /\ view.status = "blocked" /\ ~out[view.key].announced
        /\ (out[view.key].posted = None \/ Has("reannounce"))
     THEN FireScreen(view.key, TRUE, FALSE, timer, settle)
     ELSE UNCHANGED <<out, timer, settle, topic, pager, spent>>
  /\ UNCHANGED <<opt, pane, view, events>>

---------------------------------------------------------------------------
(* Press: a button under a message.                                        *)

(* What keys do to the pane.                                               *)
DialogAnswered(p) == [p EXCEPT !.status = "working", !.question = 0, !.ticks = 0]
TickBox(p) == [p EXCEPT !.ticks = 1 - @]
Typed(what) ==
  IF pane.question = 0 THEN pane
  ELSE CASE what = "text" -> pane
         [] what = "digit" /\ pane.question \in Multi -> TickBox(pane)
         [] OTHER -> DialogAnswered(pane)

(* A press acts on the latest keyboard, while the agent waits, or works    *)
(* with the dialog still on the screen.                                    *)
StillOpen(kb) == pane.question # 0 /\ (pane.question \in Multi <=> kb.question \in Multi)
Acts(k, what) ==
  LET kb == out[k].kb IN
    /\ view # Gone /\ view.key = k
    /\ view.status = "blocked" \/ (view.status = "working" /\ StillOpen(kb))
    /\ what = "submit" => kb.question \in Multi

Press(k, what) ==
  /\ out[k].kb # None /\ ~out[k].kb.waiting /\ Acts(k, what)
  /\ \/ Fails /\ Keep(k, Retired(out[k])) /\ UNCHANGED <<opt, pane, timer, topic>>
     \/ /\ spent.presses < opt.presses /\ spent' = [spent EXCEPT !.presses = @ + 1]
        /\ pane' = Typed(what)
        /\ CASE what = "text" ->
                  /\ Keep(k, [out[k] EXCEPT !.kb.waiting = TRUE, !.typing = out[k].kb.msg])
                  /\ UNCHANGED <<timer, topic>>
             [] what = "digit" /\ out[k].kb.question \in Multi ->
                  Keep(k, [out[k] EXCEPT !.refresh = out[k].kb.msg]) /\ timer' = Arm(timer, k) /\ UNCHANGED topic
             [] OTHER ->
                  /\ Keep(k, [out[k] EXCEPT !.kb = None, !.capture = None,
                                             !.refresh = IF what = "submit" THEN None ELSE @])
                  /\ timer' = Arm(timer, k) /\ UNCHANGED topic
  /\ UNCHANGED <<opt, view, events, mode, settle, pager>>

(* A press that finds the agent gone on takes the keyboard away.           *)
PressLate(k) ==
  /\ out[k].kb # None /\ ~out[k].kb.waiting /\ ~Acts(k, "digit")
  /\ Keep(k, Retired(out[k]))
  /\ UNCHANGED <<world, timer, settle, pager, topic>>

(* TakeTyping, TypingDone, CancelTyping: the text comes and is typed, or   *)
(* the wait has ended, or a command came instead.                          *)
Text(k, typed) ==
  /\ out[k].typing # None
  /\ Keep(k, [out[k] EXCEPT !.typing = None,
                 !.kb = IF @ # None /\ @.msg = out[k].typing THEN None ELSE @])
  /\ pane' = IF typed /\ pane.question # 0 THEN DialogAnswered(pane) ELSE pane
  /\ typed => view # Gone /\ view.key = k
  /\ UNCHANGED <<opt, view, events, mode, timer, settle, pager, topic, spent>>

---------------------------------------------------------------------------
(* The agent, the registry and the operator.                               *)

(* Herdr reports each change of the pane, unless the stream has gaps, when *)
(* the registry finds only what the pane is at now.                        *)
Seen == view # Gone /\ ~Has("gaps") => view.status = pane.status

Works ==
  /\ Seen /\ pane.status # "working"
  /\ IF pane.status = "blocked" THEN pane' = DialogAnswered(pane)
     ELSE pane.turn < opt.turns /\ pane' = [pane EXCEPT !.status = "working", !.turn = @ + 1]
  /\ UNCHANGED <<opt, view, events, mode, out, timer, settle, pager, topic, spent>>

AsksQuestion ==
  /\ Seen /\ pane.status = "working" /\ spent.questions < opt.questions
  /\ spent' = [spent EXCEPT !.questions = @ + 1]
  /\ pane' = [pane EXCEPT !.status = "blocked", !.question = spent.questions + 1, !.ticks = 0]
  /\ UNCHANGED <<opt, view, events, mode, out, timer, settle, pager, topic>>

Finishes ==
  /\ Seen /\ pane.status = "working" /\ pane' \in {[pane EXCEPT !.status = "done"], [pane EXCEPT !.status = "idle"]}
  /\ UNCHANGED <<opt, view, events, mode, out, timer, settle, pager, topic, spent>>

Looked ==
  /\ Seen /\ pane.status = "done" /\ pane' = [pane EXCEPT !.status = "idle"]
  /\ UNCHANGED <<opt, view, events, mode, out, timer, settle, pager, topic, spent>>

Announce(kind, k, from, status, seq) ==
  events' = Append(events, [kind |-> kind, key |-> k, from |-> from, status |-> status, seq |-> seq])
EventRoom == Len(events) < MaxEvents
Repeating == spent.repeats < opt.repeats /\ spent' = [spent EXCEPT !.repeats = @ + 1]

(* The registry learns what the pane is at; the number of the change comes *)
(* with a pane update only.                                                *)
RegistryNotice ==
  /\ view # Gone /\ EventRoom /\ pane.status # view.status
  /\ \E seq \in {view.seq, view.seq + 1} :
       /\ view' = [view EXCEPT !.status = pane.status, !.seq = seq]
       /\ Announce("changed", view.key, None, pane.status, seq)
  /\ UNCHANGED <<opt, pane, mode, out, timer, settle, pager, topic, spent>>

(* Herdr takes a waiting agent for a working one, for a moment.            *)
Flaps ==
  /\ view # Gone /\ EventRoom /\ Repeating /\ view.status = pane.status /\ view.status \in {"blocked", "idle"}
  /\ view' = [view EXCEPT !.status = "working"]
  /\ Announce("changed", view.key, None, "working", view.seq)
  /\ UNCHANGED <<opt, pane, mode, out, timer, settle, pager, topic>>

(* Something else of the pane changes.                                     *)
Repeats ==
  /\ view # Gone /\ EventRoom /\ Repeating
  /\ Announce("changed", view.key, None, view.status, view.seq)
  /\ UNCHANGED <<opt, pane, view, mode, out, timer, settle, pager, topic>>

(* The agent comes back under another key, with its topic: in some worlds  *)
(* under one the bridge has not heard yet that it left.                    *)
Leaving(k) == \E i \in 1..Len(events) : events[i].from = k
Rekeys(k) ==
  /\ Leaving(k) => Has("returns")
  /\ Has("rekeys") /\ view # Gone /\ view.key # k /\ EventRoom /\ Repeating
  /\ view' = [view EXCEPT !.key = k]
  /\ Announce("appeared", k, view.key, view.status, view.seq)
  /\ UNCHANGED <<opt, pane, mode, out, timer, settle, pager, topic>>

Exits ==
  /\ view # Gone /\ EventRoom
  /\ view' = Gone /\ pane' = [pane EXCEPT !.status = "idle", !.question = 0, !.ticks = 0]
  /\ Announce("gone", view.key, None, view.status, view.seq)
  /\ UNCHANGED <<opt, mode, out, timer, settle, pager, topic, spent>>

(* Presence and the posts option, the end of quiet is told to the bridge;  *)
(* the sync switch is not.                                                 *)
Switches(new) ==
  /\ spent.modes < opt.changes /\ spent' = [spent EXCEPT !.modes = @ + 1] /\ mode' = new
  /\ UNCHANGED <<opt, pane, view, events, out, timer, settle, pager, topic>>
SetsHush(m) ==
  m # mode.hush /\ Switches([mode EXCEPT !.hush = m, !.left = @ \/ m = "ring"])
SetsSync == "stopped" \in opt.modes /\ Switches([mode EXCEPT !.sync = ~@])

---------------------------------------------------------------------------
Init ==
  /\ opt \in Worlds
  /\ pane = [status |-> "working", turn |-> 1, question |-> 0, ticks |-> 0]
  /\ view = [key |-> First, status |-> "working", seq |-> 0]
  /\ events = <<>> /\ mode \in [sync: {TRUE} \cup {"stopped" \notin opt.modes}, hush: opt.modes \ {"stopped"}, left: {FALSE}]
  /\ out = [k \in AgentKeys |-> NoState]
  /\ timer = [running |-> {}, due |-> {}] /\ settle = timer
  /\ pager = Has("pager")
  /\ topic = [msgs |-> 0, shown |-> {}, rung |-> None, unsaid |-> {}]
  /\ spent = [questions |-> 0, presses |-> 0, repeats |-> 0, modes |-> 0, failures |-> 0, prompts |-> 0]

Bridge == Observe \/ CatchUp \/ \E k \in AgentKeys : ScreenDue(k) \/ EndTurn(k)
Operator ==
  \/ \E k \in AgentKeys : Prompt(k) \/ PressLate(k)
  \/ \E k \in AgentKeys, what \in {"digit", "submit", "text"} : Press(k, what)
  \/ \E k \in AgentKeys, typed \in BOOLEAN : Text(k, typed)
  \/ SetsSync \/ \E m \in opt.modes \ {"stopped"} : SetsHush(m)
Agent == Works \/ AsksQuestion \/ Finishes \/ Looked \/ Flaps \/ Repeats \/ Exits \/ \E k \in AgentKeys : Rekeys(k)
Next == Bridge \/ Operator \/ Agent \/ RegistryNotice \/ \E k \in AgentKeys : TimerFires(k)
Spec == Init /\ [][Next]_vars

(* The bridge takes what is ready, timers fire and Herdr reports.          *)
Fairness ==
  /\ WF_vars(Observe) /\ WF_vars(CatchUp) /\ WF_vars(RegistryNotice)
  /\ \A k \in AgentKeys : WF_vars(ScreenDue(k)) /\ WF_vars(EndTurn(k)) /\ WF_vars(TimerFires(k))
FairSpec == Spec /\ Fairness
---------------------------------------------------------------------------
(* The agent comes back under another key and the bridge does not know yet.*)
Moving == \E i \in 1..Len(events) : events[i].kind = "appeared"

(* What has rung in the topic and is still the last of it does not ring    *)
(* again while the agent waits, whatever comes between: the operator who   *)
(* leaves twice, a second timer, a new key (outbound.announced).  A post   *)
(* whose answer never came is forgotten and may ring again, and the tries  *)
(* of one call of the queue are one post here.                             *)
RingsOnce ==
  [][~Has("returns") /\ ~Moving /\ topic.rung # None /\ topic'.msgs # topic.msgs => topic'.rung # topic.rung]_vars

(* An agent waits on question q, noticed, with posts on.                   *)
Waits(q) == pane.question = q /\ view # Gone /\ view.status = "blocked" /\ Posts \in {"ring", "silent"}

(* A question that was kept back is not posted when sync is on again, nor  *)
(* while posts that were held are only silent; the end of quiet posts it.  *)
KeptBack(q) == \/ <<q, "stopped">> \in topic.unsaid
               \/ <<q, "held">> \in topic.unsaid /\ Posts = "silent"


(* The turn of an agent that rests ends, whether its answer is posted or   *)
(* not, so its prompt is not marked as taken for ever; an agent that comes *)
(* back under another key is the exception, its timers are stopped.        *)
Rests(k) ==
  /\ IF out[k].turn = None THEN FALSE ELSE out[k].turn.started # 0
  /\ view # Gone /\ view.key = k /\ view.status \in {"idle", "done"}
TurnEnds == \A k \in AgentKeys : Rests(k) ~> (~Rests(k) \/ Has("rekeys"))
=============================================================================
