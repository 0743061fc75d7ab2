------------------------------- MODULE Prompts ------------------------------
(***************************************************************************)
(* What an operator writes in an agent's topic, until it is in the agent's *)
(* pane or the operator is told that it is not (app/inbound.go, with       *)
(* app/entryanswer.go, app/typedcheck.go and app/deliver.go).              *)
(*                                                                         *)
(* The bridge is one goroutine, but a handler makes several calls to       *)
(* Herdr, and what it read on the screen may be gone when its key arrives: *)
(* a handler that reads and then writes is a step and a job that is left.  *)
(* In a world without "races" the pane waits for the job.                  *)
(*                                                                         *)
(* There is one agent, in one pane.  Its key may change, and it is what    *)
(* the registry shows, one notice late.  A message is its number.  How     *)
(* long a picker is held against plain text is left out.                   *)
(***************************************************************************)
EXTENDS Naturals, Sequences, FiniteSets

CONSTANTS Keys, First,             \* the agent's keys; the first one it has
          None, Gone,
          Worlds,                  \* what is written, and what happens
          MaxPolls,                \* entryPolls
          MaxMessages, MaxQuestions  \* bounds

Statuses == {"idle", "working", "blocked"}
Kinds == {"plain", "short", "file", "part", "usage", "clear", "models", "keys", "close", "new"}

ASSUME PromptsAssumption ==
  /\ First \in Keys /\ None \notin Keys \cup Nat /\ Gone \notin Keys
  /\ \A s \in Statuses : None # [status |-> s] /\ \A k \in Keys : Gone # [key |-> k, status |-> s]
  /\ {MaxPolls, MaxMessages, MaxQuestions} \subseteq Nat
  /\ \A w \in Worlds :
       /\ w.agent \in {"claude", "codex"} /\ w.kinds \subseteq Kinds
       /\ w.dialogs \subseteq {"menu", "entry"}
       /\ w.options \subseteq {"races", "pencil", "undriven", "rekeys", "exits", "desk"}
       /\ w.messages <= MaxMessages /\ w.questions <= MaxQuestions
       /\ {w.messages, w.questions, w.failures, w.presses} \subseteq Nat

VARIABLES
  opt,     \* the world
  pane,    \* the agent's: key, status, what it shows, question, input box; or Gone
  known,   \* the registry's: key and status; or Gone
  topic,   \* the key the topic's thread leads to
  news,    \* events on their way to the bridge
  keep,    \* what the bridge keeps for each key
  entry,   \* a text that waits for the entry of a dialog
  check,   \* a text whose taking is to be checked
  submit,  \* whether an enter is to follow a file
  album,   \* parts of a media group
  fetched, \* groups of files on their way from Telegram
  timer,   \* follow-up timers: keys whose timer runs, and whose timer has fired
  job,     \* what is left of a handler
  msg,     \* the messages so far: their kind and fate
  effect,  \* what the last step did to the agent
  spent    \* what the world has done
vars == <<opt, pane, known, topic, news, keep, entry, check, submit, album, fetched, timer, job, msg, effect, spent>>
outside == <<opt, known, topic, news>>
files == <<submit, album, fetched>>

Nothing == [kb |-> None, typing |-> None, pending |-> None, picker |-> None, closing |-> None]
Has(option) == option \in opt.options

Fails == spent.failures < opt.failures /\ spent' = [spent EXCEPT !.failures = @ + 1]
Succeeds == UNCHANGED spent

Fate(ms, fate) == msg' = [m \in DOMAIN msg |-> IF m \in ms THEN [msg[m] EXCEPT !.fate = fate] ELSE msg[m]]
Arrives(kind, fate) == msg' = Append(msg, [kind |-> kind, fate |-> fate])
New == Len(msg) + 1

---------------------------------------------------------------------------
(* The pane.                                                               *)
Here == pane # Gone
Dialog == pane.view \in {"menu", "entry", "focusing", "open"}
Shows(q) == Here /\ Dialog /\ pane.question = q
Open(q) == Shows(q) /\ pane.view = "open"

Rest == [pane EXCEPT !.view = "input", !.question = 0]
Works == [Rest EXCEPT !.status = "working", !.box = <<>>]

Effect(by, what, meant) ==
  effect' = [by |-> by, what |-> what, question |-> pane.question, meant |-> meant]
Still == effect' = None

(* A text and an enter: a prompt, an answer, or whatever the enter takes.  *)
(* A command behind a text that is still in the box is part of a prompt.   *)
TextLands(by, kind, meant) ==
  CASE pane.view = "open" -> pane' = Works /\ Effect(by, "answer", meant)
    [] Dialog /\ pane.view # "open" -> pane' = Works /\ Effect(by, "option", meant)
    [] pane.view = "picker" -> pane' = Rest /\ Effect(by, "choice", meant)
    [] pane.view = "overlay" -> UNCHANGED pane /\ Effect(by, "lost", meant)
    [] pane.view = "input" ->
         /\ Effect(by, "prompt", meant)
         /\ IF kind \in {"usage", "models"} /\ pane.status = "idle" /\ pane.box = <<>>
            THEN pane' = [pane EXCEPT !.view = IF opt.agent = "claude" THEN "overlay" ELSE "picker"]
            ELSE pane' = IF kind = "clear" /\ pane.box = <<>> THEN pane ELSE Works

(* A key: the digit of the entry, an escape or an enter.                   *)
KeyLands(by, key, meant) ==
  CASE key = "digit" /\ pane.view = "entry" -> pane' = [pane EXCEPT !.view = "focusing"] /\ Effect(by, "focus", meant)
    [] key \in {"digit", "enter"} /\ Dialog /\ ~(key = "digit" /\ pane.view = "entry") ->
         IF pane.view = "open" /\ key = "digit" THEN UNCHANGED pane /\ Effect(by, "nothing", meant)
         ELSE pane' = Works /\ Effect(by, "option", meant)
    [] key = "enter" /\ pane.view = "picker" -> pane' = Rest /\ Effect(by, "choice", meant)
    [] key = "enter" /\ pane.view = "input" /\ pane.box # <<>> ->
         pane' = Works /\ Effect(by, "prompt", meant)
    [] key = "esc" /\ (Dialog \/ pane.view \in {"overlay", "picker"}) ->
         pane' = (IF Dialog THEN [Rest EXCEPT !.status = "idle"] ELSE Rest) /\ Effect(by, "closed", meant)
    [] key = "esc" /\ pane.view = "input" /\ pane.status = "working" ->
         pane' = [pane EXCEPT !.status = "idle"] /\ Effect(by, "interrupt", meant)
    [] OTHER -> UNCHANGED pane /\ Effect(by, "nothing", meant)

---------------------------------------------------------------------------
(* Pickers.                                                                *)
Held(k) == IF keep[k].picker = None THEN FALSE ELSE keep[k].picker.status = known.status

Alive(k) == IF known = Gone THEN FALSE ELSE known.key = k
Untouched == UNCHANGED <<pane, entry, check, files, timer, job, spent>> /\ Still

---------------------------------------------------------------------------
(* Herdr's prompt: refused by an agent at a dialog; typed, with an enter,  *)
(* into the pane of an agent that Herdr does not drive.                    *)
Undriven == Has("undriven")

(* checkTyped: the newest text of the pane.                                *)
Checked(m) == [m |-> m, key |-> topic]

Prompt(m, kind) ==
  CASE ~Here -> UNCHANGED <<pane, job>> /\ Still
    [] Here /\ pane.status = "blocked" -> UNCHANGED pane /\ Still /\ job' = [do |-> "blocked", m |-> m]
    [] Here /\ pane.status # "blocked" ->
         IF Undriven THEN UNCHANGED pane /\ Still /\ job' = [do |-> "undriven", m |-> m, kind |-> kind]
         ELSE TextLands("prompt", kind, 0) /\ UNCHANGED job

PromptFate == IF ~Here THEN "failed" ELSE IF pane.status = "blocked" \/ Undriven THEN "waiting" ELSE "sent"

(* The enter may be dropped: the text stays in the input box.              *)
TypeUndriven ==
  /\ job # None /\ job.do = "undriven" /\ job' = None
  /\ Succeeds /\ UNCHANGED <<outside, keep, entry, files, timer>>
  /\ IF Here
     THEN /\ IF job.kind \in {"usage", "clear"} THEN UNCHANGED msg ELSE Fate({job.m}, "sent")
          /\ check' = IF job.kind = "file" THEN check ELSE Checked(job.m)
          /\ \/ TextLands("prompt", job.kind, 0)
             \/ pane.view = "input" /\ pane' = [pane EXCEPT !.box = Append(@, job.m)] /\ Still
     ELSE Fate({job.m}, "failed") /\ UNCHANGED <<pane, check>> /\ Still

---------------------------------------------------------------------------
(* HandleTopic.                                                            *)
Exited(kind) == Arrives(kind, "exited") /\ Untouched /\ UNCHANGED <<outside, keep>>

(* The text of a wait for it goes in whatever the screen shows.            *)
TakeTyping(k, kind) ==
  /\ keep[k].typing # None
  /\ keep' = [keep EXCEPT ![k].typing = None]
  /\ job' = [do |-> "pencil", m |-> New, q |-> keep[k].typing]
  /\ Arrives(kind, "waiting") /\ Still
  /\ UNCHANGED <<outside, pane, entry, check, files, timer, spent>>

(* holdForPicker refuses once.                                             *)
HoldForPicker(k) ==
  /\ Held(k)
  /\ keep' = [keep EXCEPT ![k].picker = None]

Hold(k, kind) == HoldForPicker(k) /\ Arrives(kind, "held") /\ Untouched /\ UNCHANGED outside

(* A hold whose status moved on is released.                               *)
Send(k, kind) ==
  /\ ~Held(k)
  /\ keep' = [keep EXCEPT ![k].picker = None]
  /\ Arrives(kind, PromptFate)
  /\ Prompt(New, kind)
  /\ UNCHANGED <<outside, entry, check, files, timer, spent>>

(* A short reply to a blocked agent is a key.                              *)
ShortReply(k) ==
  /\ known.status = "blocked"
  /\ keep' = [keep EXCEPT ![k].picker = None]
  /\ UNCHANGED <<outside, entry, check, files, timer, job, spent>>
  /\ IF Here THEN KeyLands("operator", "enter", 0) /\ Arrives("short", "sent")
     ELSE Arrives("short", "failed") /\ UNCHANGED pane /\ Still

Plain(kind) ==
  LET k == topic IN
  IF ~Alive(k) THEN Exited(kind)
  ELSE IF keep[k].typing # None THEN TakeTyping(k, kind)
  ELSE IF kind = "short" /\ known.status = "blocked" THEN ShortReply(k)
  ELSE Hold(k, kind) \/ Send(k, kind)

(* A command ends the wait for a text, and with it the buttons.            *)
Cancelled(r) ==
  IF r.typing = None THEN r
  ELSE [r EXCEPT !.typing = None, !.kb = IF @ = None THEN None ELSE IF @.q = r.typing THEN None ELSE @]
Released(r) == [r EXCEPT !.picker = None]

SendKeys(key) ==
  LET k == topic IN
  IF ~Alive(k) THEN Exited("keys")
  ELSE /\ keep' = [keep EXCEPT ![k] = Released(Cancelled(@))]
       /\ UNCHANGED <<outside, entry, check, files, timer, job, spent>>
       /\ IF Here THEN KeyLands("operator", key, 0) /\ Arrives("keys", "sent")
          ELSE Arrives("keys", "failed") /\ UNCHANGED pane /\ Still

(* forward: the command of an agent, and the timer of its screen; a newer  *)
(* one takes the place of the older.                                       *)
Fits(kind) == kind # "models"
Dismisses == opt.agent = "claude"
Opens(kind) == kind = "usage"

Forward(kind) ==
  LET k == topic IN
  IF ~Alive(k) THEN Exited(kind)
  ELSE LET r == Released(Cancelled(keep[k])) IN
       /\ UNCHANGED <<outside, entry, check, files, spent>>
       /\ IF known.status \in {"working", "blocked"} \/ ~Fits(kind) \/ ~Here
          THEN /\ keep' = [keep EXCEPT ![k] = r] /\ Arrives(kind, "refused")
               /\ UNCHANGED <<pane, timer, job>> /\ Still
          ELSE IF pane.status = "blocked"
          THEN /\ keep' = [keep EXCEPT ![k] = r] /\ Arrives(kind, "failed")
               /\ UNCHANGED <<pane, timer, job>> /\ Still
          ELSE /\ keep' = [keep EXCEPT ![k] = [r EXCEPT !.pending = New]]
               /\ timer' = [timer EXCEPT !.running = @ \cup {k}]
               /\ msg' = Append([m \in DOMAIN msg |-> IF m = keep[k].pending THEN [msg[m] EXCEPT !.fate = "replaced"] ELSE msg[m]],
                                [kind |-> kind, fate |-> "waiting"])
               /\ Prompt(New, kind)

(* A command that opens an overlay is over when the overlay is closed.     *)
EndsForward(m, fate) == IF m = None THEN UNCHANGED msg ELSE Fate({m}, fate)

FireForgotten(k) ==
  /\ Fate({keep[k].pending}, "skipped")
  /\ keep' = [keep EXCEPT ![k].pending = None]
  /\ job' = IF Opens(msg[keep[k].pending].kind) /\ Dismisses /\ Alive(k) THEN [do |-> "esc", m |-> None] ELSE None
  /\ Succeeds

(* The screen is posted, or that it cannot be read; then the overlay is    *)
(* closed, or the picker held.                                             *)
FireScreen(k) ==
  LET m == keep[k].pending IN
  LET opens == Opens(msg[m].kind) IN
  /\ Fails \/ Succeeds
  /\ keep' = [keep EXCEPT ![k].pending = None,
                          ![k].picker = IF opens /\ ~Dismisses THEN [status |-> known.status] ELSE @]
  /\ job' = IF opens /\ Dismisses THEN [do |-> "esc", m |-> m] ELSE None
  /\ IF opens /\ Dismisses THEN UNCHANGED msg ELSE Fate({m}, "sent")

Fire(k) ==
  /\ job = None /\ k \in timer.due
  /\ timer' = [timer EXCEPT !.due = @ \ {k}]
  /\ IF keep[k].pending = None THEN Succeeds /\ UNCHANGED <<keep, msg, job>>
     ELSE IF ~Alive(k) \/ topic # k THEN FireForgotten(k) ELSE FireScreen(k)
  /\ Still /\ UNCHANGED <<outside, pane, entry, check, files>>

Dismiss ==
  /\ job # None /\ job.do = "esc" /\ job' = None
  /\ UNCHANGED <<outside, keep, entry, check, files, timer>>
  /\ \/ Succeeds /\ IF Here THEN KeyLands("dismiss", "esc", 0) /\ EndsForward(job.m, "sent")
                    ELSE UNCHANGED pane /\ Still /\ EndsForward(job.m, "left open")
     \/ Fails /\ UNCHANGED pane /\ Still /\ EndsForward(job.m, "left open")

TimerFires(k) ==
  /\ k \in timer.running
  /\ timer' = [running |-> timer.running \ {k}, due |-> timer.due \cup {k}]
  /\ Still /\ UNCHANGED <<outside, pane, keep, entry, check, files, job, msg, spent>>

---------------------------------------------------------------------------
(* answerBlocked: a text for an agent that waits at a dialog.              *)

Waits(q) == Shows(q) /\ pane.view = "entry"
Answer(m, q, by) == [do |-> "type", m |-> m, key |-> topic, q |-> q, by |-> by, polls |-> 0]

AnswerBlocked ==
  LET m == job.m
      kb == keep[topic].kb IN
  LET q == IF kb = None THEN 0 ELSE kb.q
      refused == opt.agent # "claude" \/ entry # None \/ (IF kb = None THEN TRUE ELSE ~kb.entry) IN
  /\ job # None /\ job.do = "blocked"
  /\ Still /\ UNCHANGED <<outside, pane, keep, entry, check, files, timer>>
  /\ \/ (refused \/ ~(Open(q) \/ Waits(q))) /\ Succeeds /\ Fate({m}, "refused") /\ job' = None
     \/ ~refused /\ Fails /\ Fate({m}, "refused") /\ job' = None
     \/ ~refused /\ Open(q) /\ Succeeds /\ job' = Answer(m, q, "answer") /\ UNCHANGED msg
     \/ ~refused /\ Waits(q) /\ Succeeds /\ job' = [Answer(m, q, "answer") EXCEPT !.do = "digit"] /\ UNCHANGED msg

PressDigit ==
  /\ job # None /\ job.do = "digit" /\ job' = None
  /\ UNCHANGED <<outside, keep, check, files, timer>>
  /\ \/ Succeeds /\ Here /\ KeyLands("answer", "digit", job.q) /\ entry' = job /\ UNCHANGED msg
     \/ (Fails \/ (Succeeds /\ ~Here)) /\ Fate({job.m}, "failed") /\ UNCHANGED <<pane, entry>> /\ Still

(* typeAnswer; deliverText for the text of a wait.  The buttons show it.   *)
Marked(r, q) ==
  [r EXCEPT !.kb = IF @ = None THEN None ELSE IF @.q = q THEN None ELSE @,
            !.typing = IF @ = q THEN None ELSE @]

TypeAnswer ==
  /\ job # None /\ job.do = "type" /\ job' = None
  /\ UNCHANGED <<outside, entry, check, files, timer>>
  /\ \/ /\ Here /\ Succeeds /\ TextLands(job.by, "plain", job.q)
        /\ keep' = [keep EXCEPT ![job.key] = Marked(@, job.q)]
        /\ Fate({job.m}, "sent")
     \/ ((~Here /\ Succeeds) \/ Fails) /\ Fate({job.m}, "failed") /\ UNCHANGED <<pane, keep>> /\ Still

(* fireAnswer: the screen is read until the entry is open.                 *)
PollEntry ==
  /\ job = None /\ entry # None
  /\ Still /\ UNCHANGED <<outside, pane, keep, check, files, timer>>
  /\ IF ~Alive(entry.key) THEN Fate({entry.m}, "dropped") /\ entry' = None /\ Succeeds /\ UNCHANGED job
     ELSE \/ Open(entry.q) /\ Succeeds /\ job' = [entry EXCEPT !.do = "type"] /\ entry' = None /\ UNCHANGED msg
          \/ /\ (~Open(entry.q) /\ Succeeds) \/ Fails
             /\ UNCHANGED job
             /\ IF entry.polls + 1 < MaxPolls
                THEN entry' = [entry EXCEPT !.polls = @ + 1] /\ UNCHANGED msg
                ELSE entry' = None /\ Fate({entry.m}, "refused")

TypeAfterPress ==
  /\ job # None /\ job.do = "pencil"
  /\ UNCHANGED <<outside, entry, check, files, timer>> /\ Succeeds
  /\ IF ~Here THEN Fate({job.m}, "failed") /\ job' = None /\ UNCHANGED <<pane, keep>> /\ Still
     ELSE IF pane.status = "blocked"
     THEN job' = Answer(job.m, job.q, "pencil") /\ UNCHANGED <<pane, keep, msg>> /\ Still
     ELSE /\ job' = None /\ TextLands("pencil", "plain", job.q) /\ Fate({job.m}, "sent")
          /\ keep' = [keep EXCEPT ![topic] = Marked(@, job.q)]

---------------------------------------------------------------------------
(* fireTyped: is the text still in the input box?                          *)
FireTyped ==
  /\ job = None /\ check # None /\ check' = None
  /\ Still /\ UNCHANGED <<outside, pane, keep, entry, files, timer, job>>
  /\ \/ Succeeds /\ IF Alive(check.key) /\ Here /\ pane.box # <<>> /\ Head(pane.box) = check.m
                    THEN Fate({check.m}, "stuck") ELSE UNCHANGED msg
     \/ Fails /\ UNCHANGED msg

---------------------------------------------------------------------------
(* Files.                                                                  *)
Group(m) == [what |-> "files", m |-> m, key |-> topic]

Attach(kind) ==
  IF ~Alive(topic) THEN Exited(kind)
  ELSE /\ Still /\ UNCHANGED <<outside, pane, keep, entry, check, submit, timer, job, spent>>
       /\ \/ Arrives(kind, "refused") /\ UNCHANGED <<album, fetched>>
          \/ kind = "file" /\ fetched' = fetched \cup {Group(New)} /\ Arrives(kind, "waiting") /\ UNCHANGED album
          \/ kind = "part" /\ album = None /\ album' = Group(New) /\ Arrives(kind, "waiting") /\ UNCHANGED fetched
          \/ kind = "part" /\ album # None /\ Arrives(kind, "joined") /\ UNCHANGED <<album, fetched>>

FireAlbum ==
  /\ job = None /\ album # None
  /\ fetched' = fetched \cup {album} /\ album' = None
  /\ Still /\ UNCHANGED <<outside, pane, keep, entry, check, submit, timer, job, msg, spent>>

(* InboxFinished: the topic leads to the agent as it is now.               *)
Delivered(m) ==
  \/ /\ HoldForPicker(topic) /\ Fate({m}, "held") /\ UNCHANGED <<pane, submit, job>> /\ Still
  \/ /\ ~Held(topic)
     /\ keep' = [keep EXCEPT ![topic].picker = None]
     /\ Fate({m}, PromptFate)
     /\ Prompt(m, "file")
     /\ submit' = (submit \/ (Here /\ pane.status # "blocked"))

InboxFinished(g) ==
  /\ job = None /\ g.what = "files" /\ fetched' = fetched \ {g}
  /\ Succeeds /\ UNCHANGED <<outside, entry, check, album, timer>>
  /\ \/ Fate({g.m}, "failed") /\ UNCHANGED <<pane, keep, submit, job>> /\ Still
     \/ ~Alive(topic) /\ Fate({g.m}, "kept") /\ UNCHANGED <<pane, keep, submit, job>> /\ Still
     \/ Alive(topic) /\ Delivered(g.m)

(* A mutant: the screen is not read.                                       *)
FireSubmitBlind ==
  /\ job = None /\ submit /\ submit' = FALSE
  /\ Still /\ UNCHANGED <<outside, pane, keep, entry, check, album, fetched, timer, msg>>
  /\ Succeeds /\ Here /\ job' = [do |-> "enter"]

(* fireSubmit: the enter after a file, unless there is a dialog by now.  A *)
(* picker may look like one.                                               *)
FireSubmit ==
  /\ job = None /\ submit /\ submit' = FALSE
  /\ Still /\ UNCHANGED <<outside, pane, keep, entry, check, album, fetched, timer, msg>>
  /\ \/ (Succeeds \/ Fails) /\ UNCHANGED job
     \/ Succeeds /\ Here /\ ~Dialog /\ job' = [do |-> "enter"]

PressEnter ==
  /\ job # None /\ job.do = "enter" /\ job' = None /\ Succeeds
  /\ IF Here THEN KeyLands("submit", "enter", 0) ELSE UNCHANGED pane /\ Still
  /\ UNCHANGED <<outside, keep, entry, check, files, timer, msg>>

---------------------------------------------------------------------------
(* /close and /new.                                                        *)
AskClose ==
  LET k == topic IN
  IF ~Alive(k) THEN Exited("close")
  ELSE /\ Still /\ UNCHANGED <<outside, pane, entry, check, files, timer, job>>
       /\ Arrives("close", "sent")
       /\ \/ Succeeds /\ keep' = [keep EXCEPT ![k] = [Cancelled(@) EXCEPT !.closing = New]]
          \/ Fails /\ keep' = [keep EXCEPT ![k] = [Cancelled(@) EXCEPT !.closing = None]]

(* A button of the question m.                                             *)
Latest(k, m) == keep[k].closing = m

PressClose(m) ==
  LET k == topic IN
  /\ job = None /\ m \in DOMAIN msg /\ msg[m].kind = "close" /\ Latest(k, m)
  /\ keep' = [keep EXCEPT ![k].closing = None]
  /\ UNCHANGED <<outside, entry, check, files, timer, job, msg>>
  /\ spent.presses < opt.presses /\ spent' = [spent EXCEPT !.presses = @ + 1]
  /\ \/ Here /\ Alive(k) /\ pane' = Gone /\ Effect("close", "gone", m)
     \/ UNCHANGED pane /\ Still

StartAgent ==
  /\ Still /\ UNCHANGED <<outside, pane, keep, entry, check, submit, album, timer, job, spent>>
  /\ \/ Arrives("new", "failed") /\ UNCHANGED fetched
     \/ Arrives("new", "waiting") /\ fetched' = fetched \cup {[what |-> "start", m |-> New, key |-> topic]}

StartFinished(g) ==
  /\ job = None /\ g.what = "start" /\ fetched' = fetched \ {g}
  /\ \E fate \in {"sent", "failed"} : Fate({g.m}, fate)
  /\ Still /\ UNCHANGED <<outside, pane, keep, entry, check, submit, album, timer, job, spent>>

---------------------------------------------------------------------------
(* The questions the bridge posts, and the press of their text button.     *)
PostQuestion(k) ==
  /\ job = None /\ Alive(k) /\ known.status = "blocked"
  /\ Here /\ pane.view \in {"menu", "entry"}
  /\ IF keep[k].kb = None THEN TRUE ELSE keep[k].kb.q # pane.question
  /\ keep' = [keep EXCEPT ![k].kb = [q |-> pane.question, entry |-> pane.view = "entry"], ![k].typing = None]
  /\ Still /\ UNCHANGED <<outside, pane, entry, check, files, timer, job, msg, spent>>

PressText(k) ==
  /\ job = None /\ Has("pencil") /\ topic = k /\ Alive(k) /\ Here
  /\ keep[k].kb # None /\ keep[k].typing = None
  /\ keep[k].kb.entry /\ (known.status = "blocked" \/ Shows(keep[k].kb.q))
  /\ spent.presses < opt.presses /\ spent' = [spent EXCEPT !.presses = @ + 1]
  /\ KeyLands("press", "digit", keep[k].kb.q)
  /\ keep' = [keep EXCEPT ![k].typing = keep[k].kb.q]
  /\ UNCHANGED <<outside, entry, check, files, timer, job, msg>>

---------------------------------------------------------------------------
(* The bridge hears that the agent has another key, or is gone.            *)
Reassociated(from, to) ==
  LET Own(mine, moved) == IF mine = None THEN moved ELSE mine
      old == keep[from]
      new == keep[to]
  IN [keep EXCEPT ![to] = [kb |-> Own(new.kb, old.kb), typing |-> Own(new.typing, old.typing),
                           pending |-> Own(new.pending, old.pending), picker |-> Own(new.picker, old.picker),
                           closing |-> Own(new.closing, old.closing)],
                  ![from] = Nothing]

(* A mutant: only a timer that runs moves.                                 *)
MovedTimerOnly(from, to) ==
  [timer EXCEPT !.running = IF from \in @ THEN (@ \ {from}) \cup {to} ELSE @]

(* A timer that has fired already cannot move: a new one is started.       *)
MovedTimer(from, to) ==
  [timer EXCEPT !.running = IF from \in @ \/ keep[from].pending # None THEN (@ \ {from}) \cup {to} ELSE @]

Reassociate(from, to) ==
  /\ keep' = Reassociated(from, to)
  /\ IF keep[to].pending = None THEN UNCHANGED msg ELSE EndsForward(keep[from].pending, "replaced")
  /\ timer' = MovedTimer(from, to)
  /\ album' = IF album = None THEN None ELSE IF album.key = from THEN [album EXCEPT !.key = to] ELSE album

Forget(k) ==
  /\ keep' = [keep EXCEPT ![k] = [Nothing EXCEPT !.pending = keep[k].pending]]
  /\ UNCHANGED <<timer, album, msg>>

Hear ==
  /\ job = None /\ news # <<>> /\ news' = Tail(news)
  /\ IF Head(news).kind = "moved" THEN Reassociate(Head(news).from, Head(news).to) ELSE Forget(Head(news).from)
  /\ Still /\ UNCHANGED <<opt, pane, known, topic, entry, check, submit, fetched, job, spent>>

---------------------------------------------------------------------------
(* The registry follows the pane, and the topic the registry.              *)
Notice ==
  /\ known # Gone
  /\ known' = (IF Here THEN [key |-> pane.key, status |-> pane.status] ELSE Gone) /\ known' # known
  /\ news' = IF Here THEN news ELSE Append(news, [kind |-> "gone", from |-> known.key, to |-> known.key])
  /\ Still /\ UNCHANGED <<opt, pane, topic, keep, entry, check, files, timer, job, msg, spent>>

MapMoves ==
  /\ known # Gone /\ known.key # topic
  /\ topic' = known.key
  /\ news' = Append(news, [kind |-> "moved", from |-> topic, to |-> known.key])
  /\ Still /\ UNCHANGED <<opt, pane, known, keep, entry, check, files, timer, job, msg, spent>>

---------------------------------------------------------------------------
(* The agent, and its user at the desk.                                    *)
Agent(next) ==
  /\ job = None \/ Has("races")
  /\ pane' = next
  /\ Still /\ UNCHANGED <<outside, keep, entry, check, files, timer, job, msg>>

Asks ==
  /\ Here /\ pane.status = "working" /\ spent.questions < opt.questions
  /\ spent' = [spent EXCEPT !.questions = @ + 1]
  /\ \E view \in opt.dialogs :
       Agent([pane EXCEPT !.status = "blocked", !.view = view, !.question = spent.questions + 1])

Ends == Here /\ pane.status = "working" /\ pane.view = "input" /\ Agent([pane EXCEPT !.status = "idle"]) /\ Succeeds
Focuses == Here /\ pane.view = "focusing" /\ Agent([pane EXCEPT !.view = "open"]) /\ Succeeds

(* The desk answers a question, closes what is open, or starts a turn.     *)
Desk ==
  /\ Has("desk") /\ Here /\ Succeeds
  /\ \/ pane.view # "input" /\ Agent(IF Dialog THEN Works ELSE Rest)
     \/ pane.view = "input" /\ pane.status = "idle" /\ Agent(Works)

Exits == Has("exits") /\ Here /\ Agent(Gone) /\ Succeeds

Rekeys ==
  /\ Has("rekeys") /\ Here
  /\ \E k \in Keys \ {First} : pane.key = First /\ Agent([pane EXCEPT !.key = k])
  /\ Succeeds

---------------------------------------------------------------------------
HandleTopic(kind) ==
  /\ job = None /\ Len(msg) < opt.messages /\ kind \in opt.kinds
  /\ \/ kind \in {"plain", "short"} /\ Plain(kind)
     \/ kind \in {"file", "part"} /\ Attach(kind)
     \/ kind \in {"usage", "clear", "models"} /\ Forward(kind)
     \/ kind = "keys" /\ \E key \in {"esc", "enter"} : SendKeys(key)
     \/ kind = "close" /\ AskClose
     \/ kind = "new" /\ StartAgent

Init ==
  /\ opt \in Worlds
  /\ \E status \in {"idle", "working"} :
       /\ pane = [key |-> First, status |-> status, view |-> "input", question |-> 0, box |-> <<>>]
       /\ known = [key |-> First, status |-> status]
  /\ topic = First /\ news = <<>>
  /\ keep = [k \in Keys |-> Nothing]
  /\ entry = None /\ check = None /\ submit = FALSE /\ album = None /\ fetched = {}
  /\ timer = [running |-> {}, due |-> {}]
  /\ job = None /\ msg = <<>> /\ effect = None
  /\ spent = [questions |-> 0, presses |-> 0, failures |-> 0]

Job == TypeUndriven \/ Dismiss \/ AnswerBlocked \/ PressDigit \/ TypeAnswer \/ TypeAfterPress \/ PressEnter
Arrival == \E g \in fetched : InboxFinished(g) \/ StartFinished(g)

Next ==
  \/ \E kind \in Kinds : HandleTopic(kind)
  \/ Job \/ PollEntry \/ FireTyped \/ FireAlbum \/ FireSubmit \/ Arrival
  \/ \E k \in Keys : Fire(k) \/ TimerFires(k) \/ PostQuestion(k) \/ PressText(k)
  \/ \E m \in 1..MaxMessages : PressClose(m)
  \/ Hear \/ Notice \/ MapMoves
  \/ Asks \/ Ends \/ Focuses \/ Desk \/ Exits \/ Rekeys

Spec == Init /\ [][Next]_vars

(* The bridge serves what waits for it, timers fire, downloads and starts  *)
(* of agents end (they have deadlines).                                    *)
FairSpec ==
  /\ Spec
  /\ WF_vars(Job) /\ WF_vars(PollEntry) /\ WF_vars(FireTyped) /\ WF_vars(FireAlbum) /\ WF_vars(FireSubmit)
  /\ WF_vars(Arrival) /\ WF_vars(Hear)
  /\ \A k \in Keys : WF_vars(Fire(k)) /\ WF_vars(TimerFires(k))

---------------------------------------------------------------------------
(* The pane stands still between a look at it and the key that follows.    *)
Settled == ~Has("races") /\ ~Has("pencil")

(* What the bridge keeps for a key is found under it, and a command lands  *)
(* on the screen it was meant for.                                         *)
OneKey == ~Has("rekeys")
InTime == ~(Has("races") /\ Undriven)

(* Since the last command that opens something the operator was told that  *)
(* it may be open, or typed another one; a file may be older than it.      *)
LastOpened == CHOOSE m \in DOMAIN msg : Opens(msg[m].kind) /\ \A n \in m + 1..Len(msg) : ~Opens(msg[n].kind)
Warned ==
  \E n \in DOMAIN msg :
    \/ msg[n].fate = "held" /\ (n > LastOpened \/ msg[n].kind \in {"file", "part"})
    \/ n > LastOpened /\ msg[n].kind \in {"keys", "clear", "models"}

(* What the bridge types on its own never confirms an option of a dialog,  *)
(* and a text that answers answers the question whose buttons stood last   *)
(* (entryanswer.go:60, inbound.go:1090), while the pane stands still       *)
(* between a look at it and the key.  While the agent keeps its key, only  *)
(* the newest question of /close closes the pane (:404), and a text        *)
(* chooses in a picker that the bridge left open only after the operator   *)
(* was told of it, or drove it (:527).                                     *)
NothingUnmeant ==
  effect # None =>
    /\ Settled =>
         /\ effect.what = "option" => effect.by = "operator"
         /\ effect.what = "answer" /\ effect.by = "answer" => effect.question = effect.meant
    /\ OneKey =>
         /\ effect.what = "gone" => \A m \in DOMAIN msg : msg[m].kind = "close" => m <= effect.meant
         /\ InTime /\ effect.what = "choice" /\ effect.by = "prompt" /\ msg[LastOpened].fate = "sent" => Warned

(* No message waits for ever: it is sent, refused or told, or it ends in   *)
(* silence, as a text for an entry does whose agent is gone ("dropped",    *)
(* entryanswer.go:106), a follow-up of a command whose agent or topic is   *)
(* ("skipped", inbound.go:616) and one that a newer command "replaced".    *)
(* An overlay that a command opened is closed again ("so no overlay is     *)
(* left open", inbound.go:587), unless the operator is told that it could  *)
(* not be, or the follow-up was skipped; a text that stays in the input    *)
(* box is told, unless a newer one follows or a call failed.               *)
Answered(m) == (m \in DOMAIN msg /\ msg[m].fate = "waiting") ~> (m \in DOMAIN msg /\ msg[m].fate # "waiting")
OverlayCloses ==
  (Here /\ pane.view = "overlay") ~> (~Here \/ pane.view # "overlay" \/ \E m \in DOMAIN msg : msg[m].fate \in {"left open", "skipped"})
StuckIsTold ==
  (Here /\ pane.box # <<>>) ~>
     (~Here \/ Len(pane.box) # 1 \/ msg[Head(pane.box)].fate = "stuck" \/ spent.failures > 0)
MessageAnswered == (\A m \in 1..MaxMessages : Answered(m)) /\ OverlayCloses /\ StuckIsTold
=============================================================================
