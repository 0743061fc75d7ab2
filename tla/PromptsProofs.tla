---------------------------- MODULE PromptsProofs ---------------------------
(***************************************************************************)
(* What is typed for an operator is meant, for every world, every number   *)
(* of messages, questions, presses and failures.                           *)
(*                                                                         *)
(* What a handler read stays true while its job is left, in a world where  *)
(* the pane waits for it; a picker that a command left open is held, told  *)
(* of, or not posted yet; no two things that wait carry one message.       *)
(***************************************************************************)
EXTENDS Prompts, SequenceTheorems, TLAPS

Views == {"input", "menu", "entry", "focusing", "open", "overlay", "picker"}
Pane == [key: Keys, status: Statuses, view: Views, question: Nat, box: Seq(Nat)]
Shown == [key: Keys, status: Statuses]
News == [kind: {"moved", "gone"}, from: Keys, to: Keys]
Record ==
  [kb: [q: Nat, entry: BOOLEAN] \cup {None}, typing: Nat \cup {None}, pending: Nat \cup {None},
   picker: [status: Statuses] \cup {None}, closing: Nat \cup {None}]
Fates ==
  {"waiting", "sent", "failed", "refused", "held", "exited", "kept", "dropped", "stuck", "skipped", "replaced",
   "left open", "joined"}
Message == [kind: Kinds, fate: Fates]
Answers == [do: {"digit", "type"}, m: Nat, key: Keys, q: Nat, by: {"answer", "pencil"}, polls: Nat]
Jobs ==
  Answers \cup [do: {"blocked"}, m: Nat] \cup [do: {"undriven"}, m: Nat, kind: Kinds]
    \cup [do: {"pencil"}, m: Nat, q: Nat] \cup [do: {"esc"}, m: Nat \cup {None}] \cup [do: {"enter"}]
Groups == [what: {"files", "start"}, m: Nat, key: Keys]

TypeOK ==
  /\ opt \in Worlds
  /\ pane \in Pane \cup {Gone}
  /\ known \in Shown \cup {Gone}
  /\ topic \in Keys
  /\ news \in Seq(News)
  /\ keep \in [Keys -> Record]
  /\ entry \in Answers \cup {None}
  /\ check \in [m: Nat, key: Keys] \cup {None}
  /\ album \in Groups \cup {None}
  /\ fetched \in SUBSET Groups
  /\ job \in Jobs \cup {None}
  /\ msg \in Seq(Message)
  /\ spent \in [questions: Nat, presses: Nat, failures: Nat]

---------------------------------------------------------------------------
(* An agent is blocked where it shows a dialog; a picker is up while it is *)
(* idle.                                                                   *)
DialogIsBlocked == Here => (pane.status = "blocked" <=> Dialog)
PickerIsIdle == Here /\ pane.view = "picker" => pane.status = "idle" /\ opt.agent # "claude"

(* What waits carries a message that was not held, of a kind that may wait *)
(* there.                                                                  *)
Carries(s, m) == m \in DOMAIN s /\ s[m].fate # "held"
IsFile(s, m) == s[m].kind \in {"file", "part"}
Carried ==
  /\ \A k \in Keys : keep[k].pending # None =>
       Carries(msg, keep[k].pending) /\ msg[keep[k].pending].kind \in {"usage", "clear"}
  /\ check # None => Carries(msg, check.m) /\ ~IsFile(msg, check.m)
  /\ entry # None => Carries(msg, entry.m) /\ ~Opens(msg[entry.m].kind) /\ entry.do = "digit" /\ entry.by = "answer"
  /\ album # None => Carries(msg, album.m) /\ IsFile(msg, album.m) /\ album.what = "files"
  /\ \A g \in fetched :
       /\ Carries(msg, g.m)
       /\ \/ g.what = "files" /\ IsFile(msg, g.m)
          \/ g.what = "start" /\ msg[g.m].kind = "new"

Texts == {"blocked", "digit", "type", "pencil"}
JobCarries ==
  job # None =>
    /\ job.do \in Texts => Carries(msg, job.m) /\ ~Opens(msg[job.m].kind)
    /\ job.do = "digit" => job.by = "answer"
    /\ job.do = "undriven" =>
         /\ Undriven /\ Carries(msg, job.m) /\ job.kind \notin {"part", "models"}
         /\ IF job.kind = "file" THEN IsFile(msg, job.m) ELSE msg[job.m].kind = job.kind
    /\ job.do = "esc" => Dismisses /\ (job.m # None => Carries(msg, job.m))

(* A file that is on its way is carried by nothing else.                   *)
JobHas(m) == job # None /\ job.do \in Texts \cup {"undriven"} /\ job.m = m
Apart ==
  /\ \A g, h \in fetched : g.m = h.m => g = h
  /\ \A g \in fetched :
       /\ ~JobHas(g.m)
       /\ entry # None => entry.m # g.m
       /\ album # None => album.m # g.m
  /\ album # None => ~JobHas(album.m) /\ (entry # None => entry.m # album.m)

(* What was read on the screen is there when the key follows.              *)
Looked ==
  /\ ~Has("pencil") => \A k \in Keys : keep[k].typing = None
  /\ ~Has("pencil") /\ job # None => job.do # "pencil"
  /\ Settled /\ job # None =>
       /\ job.do = "undriven" /\ Here => ~Dialog
       /\ job.do = "digit" => Waits(job.q)
       /\ job.do = "type" => Open(job.q) /\ job.by = "answer"
       /\ job.do = "enter" => Here /\ ~Dialog

(* One key: the topic leads to it, and what is kept is kept for it.        *)
Home ==
  OneKey =>
    /\ topic = First
    /\ Here => pane.key = First
    /\ known # Gone => known.key = First
    /\ news # <<>> \/ known = Gone => ~Here
    /\ \A i \in DOMAIN news : news[i].kind = "gone"
    /\ \A k \in Keys \ {First} : keep[k].pending = None /\ keep[k].picker = None

(* The question of /close that is kept is the newest.                      *)
NewestAsks ==
  OneKey /\ Here /\ keep[First].closing # None =>
    \A m \in DOMAIN msg : msg[m].kind = "close" => m <= keep[First].closing

(* The last message of s that opens something, and that the operator was   *)
(* told since.                                                             *)
IsLast(s, m) == m \in DOMAIN s /\ Opens(s[m].kind) /\ \A n \in DOMAIN s : n > m => ~Opens(s[n].kind)
WarnedSince(s, m) ==
  \E n \in DOMAIN s :
    \/ s[n].fate = "held" /\ (n > m \/ s[n].kind \in {"file", "part"})
    \/ n > m /\ s[n].kind \in {"keys", "clear", "models"}

(* A picker that is up is held back, or the operator was told of it, or    *)
(* the command that opened it has another end, or none yet.                *)
KnownIdle == known # Gone /\ known.status = "idle"
IdleHold == keep[First].picker # None /\ keep[First].picker.status = "idle"
Known(m) == WarnedSince(msg, m) \/ IdleHold \/ msg[m].fate # "sent"
PickerKnown ==
  OneKey /\ InTime /\ Here /\ pane.view = "picker" => KnownIdle /\ \E m \in DOMAIN msg : IsLast(msg, m) /\ Known(m)

(* A text that is still to be typed into a pane found nothing held.        *)
Unheld ==
  OneKey /\ InTime /\ job # None /\ job.do = "undriven" =>
    /\ keep[First].picker = None
    /\ Here /\ Opens(job.kind) /\ pane.status = "idle" =>
         KnownIdle /\ IsLast(msg, job.m) /\ msg[job.m].fate # "sent"

IInv ==
  /\ DialogIsBlocked /\ PickerIsIdle /\ Carried /\ JobCarries /\ Apart /\ Looked
  /\ Home /\ NewestAsks /\ PickerKnown /\ Unheld /\ NothingUnmeant
---------------------------------------------------------------------------
(* What becomes of the messages.                                           *)

LEMMA FateMeans ==
  ASSUME msg \in Seq(Message), NEW S, NEW f \in Fates, Fate(S, f)
  PROVE  /\ msg' \in Seq(Message) /\ DOMAIN msg' = DOMAIN msg
         /\ \A m \in DOMAIN msg :
              msg'[m].kind = msg[m].kind /\ msg'[m].fate = IF m \in S THEN f ELSE msg[m].fate
  <1>1. PICK n \in Nat : msg \in [1..n -> Message]
    BY SeqDef
  <1>2. msg' = [m \in 1..n |-> IF m \in S THEN [msg[m] EXCEPT !.fate = f] ELSE msg[m]]
    BY <1>1 DEF Fate
  <1>3. \A m \in 1..n : msg[m] \in Message
    BY <1>1
  <1>4. msg' \in [1..n -> Message]
    BY <1>2, <1>3 DEF Message
  <1>5. msg' \in Seq(Message)
    BY <1>4, SeqDef
  <1> QED
    BY <1>1, <1>2, <1>3, <1>5 DEF Message

LEMMA ArrivesMeans ==
  ASSUME msg \in Seq(Message), NEW k \in Kinds, NEW f \in Fates, Arrives(k, f)
  PROVE  /\ msg' \in Seq(Message) /\ DOMAIN msg' = DOMAIN msg \cup {New}
         /\ New \in Nat /\ New \notin DOMAIN msg /\ \A m \in DOMAIN msg : m < New
         /\ \A m \in DOMAIN msg : msg'[m] = msg[m]
         /\ msg'[New].kind = k /\ msg'[New].fate = f
  <1> DEFINE r == [kind |-> k, fate |-> f]
  <1>1. r \in Message
    BY DEF Message
  <1>2. msg' = Append(msg, r)
    BY DEF Arrives
  <1>3. r.kind = k /\ r.fate = f
    OBVIOUS
  <1> HIDE DEF r
  <1>4. DOMAIN msg = 1..Len(msg) /\ Len(msg) \in Nat
    OBVIOUS
  <1>5. /\ msg' \in Seq(Message) /\ Len(msg') = New /\ DOMAIN msg' = 1..New
        /\ \A m \in 1..Len(msg) : msg'[m] = msg[m]
        /\ msg'[New] = r
    BY <1>1, <1>2, <1>4 DEF New
  <1>6. New = Len(msg) + 1
    BY DEF New
  <1> HIDE DEF New
  <1>7. DOMAIN msg' = DOMAIN msg \cup {New} /\ New \in Nat /\ New \notin DOMAIN msg /\ \A m \in DOMAIN msg : m < New
    BY <1>4, <1>5, <1>6
  <1>8. \A m \in DOMAIN msg : msg'[m] = msg[m]
    BY <1>4, <1>5
  <1>9. msg'[New].kind = k /\ msg'[New].fate = f
    BY <1>3, <1>5
  <1> QED
    BY <1>5, <1>7, <1>8, <1>9

LEMMA MessageIs ==
  ASSUME msg \in Seq(Message), NEW m \in DOMAIN msg
  PROVE  m \in Nat /\ msg[m] \in Message /\ msg[m].kind \in Kinds /\ msg[m].fate \in Fates
  <1>1. DOMAIN msg = 1..Len(msg) /\ Len(msg) \in Nat
    OBVIOUS
  <1>2. m \in Nat
    BY <1>1
  <1>3. msg[m] \in Message
    BY <1>1
  <1> QED
    BY <1>2, <1>3 DEF Message

(* No message is lost or of another kind, and what is held stays held.     *)
Kept ==
  /\ msg' \in Seq(Message)
  /\ \A m \in DOMAIN msg :
       /\ m \in DOMAIN msg' /\ msg'[m].kind = msg[m].kind
       /\ msg'[m].fate = "held" <=> msg[m].fate = "held"

LEMMA FateKeeps ==
  ASSUME msg \in Seq(Message), NEW S, NEW f \in Fates, Fate(S, f), f # "held",
         \A m \in S : m \in DOMAIN msg => msg[m].fate # "held"
  PROVE  Kept
  BY FateMeans DEF Kept

LEMMA ArrivesKeeps ==
  ASSUME msg \in Seq(Message), NEW k \in Kinds, NEW f \in Fates, Arrives(k, f)
  PROVE  Kept
  BY ArrivesMeans DEF Kept

LEMMA SameKeeps ==
  ASSUME msg \in Seq(Message), UNCHANGED msg
  PROVE  Kept
  BY DEF Kept

(* Nothing that opens a screen is written or posted.                       *)
OpensNothing ==
  /\ \A m \in DOMAIN msg : Opens(msg[m].kind) /\ msg[m].fate # "sent" => msg'[m].fate # "sent"
  /\ \A n \in DOMAIN msg' : n \notin DOMAIN msg => ~Opens(msg'[n].kind)

LEMMA LastStays ==
  ASSUME TypeOK, Kept, OpensNothing, NEW m, IsLast(msg, m)
  PROVE  /\ IsLast(msg', m)
         /\ WarnedSince(msg, m) => WarnedSince(msg', m)
         /\ msg[m].fate # "sent" => msg'[m].fate # "sent"
  <1>1. IsLast(msg', m)
    BY DEF IsLast, Kept, OpensNothing
  <1>2. WarnedSince(msg, m) => WarnedSince(msg', m)
    BY DEF WarnedSince, Kept
  <1> QED
    BY <1>1, <1>2 DEF IsLast, OpensNothing

LEMMA LastIs ==
  ASSUME NEW s \in Seq(Message), NEW m, IsLast(s, m)
  PROVE  m = CHOOSE l \in DOMAIN s : Opens(s[l].kind) /\ \A n \in l + 1..Len(s) : ~Opens(s[n].kind)
  <1> DEFINE P(l) == Opens(s[l].kind) /\ \A n \in l + 1..Len(s) : ~Opens(s[n].kind)
  <1>1. DOMAIN s = 1..Len(s) /\ Len(s) \in Nat
    OBVIOUS
  <1>2. m \in DOMAIN s /\ P(m)
    BY <1>1 DEF IsLast
  <1>3. ASSUME NEW l \in DOMAIN s, P(l) PROVE l = m
    <2>1. l \in Nat /\ m \in Nat
      BY <1>1, <1>2
    <2>2. ~ l > m
      BY <1>3 DEF IsLast
    <2>3. ~ m > l
      <3>1. m > l => m \in l + 1..Len(s)
        BY <1>1, <1>2, <2>1
      <3> QED
        BY <1>2, <1>3, <3>1
    <2> QED
      BY <2>1, <2>2, <2>3
  <1> HIDE DEF P
  <1>4. m = CHOOSE l \in DOMAIN s : P(l)
    BY <1>2, <1>3
  <1> QED
    BY <1>4 DEF P

(* With one message that opened something last, the choice is a told one.  *)
LEMMA WarnedIs ==
  ASSUME msg \in Seq(Message), NEW m, IsLast(msg, m)
  PROVE  LastOpened = m /\ (Warned <=> WarnedSince(msg, m))
  <1>1. LastOpened = m
    BY LastIs DEF LastOpened
  <1> QED
    BY <1>1 DEF Warned, WarnedSince

LEMMA WarnedNext ==
  ASSUME msg' \in Seq(Message), NEW m, IsLast(msg', m)
  PROVE  LastOpened' = m /\ (Warned' <=> WarnedSince(msg', m))
  <1>1. LastOpened' = m
    BY LastIs DEF LastOpened
  <1> QED
    BY <1>1 DEF Warned, WarnedSince

---------------------------------------------------------------------------
(* What stays as it is.                                                    *)

(* Nothing new waits, or what was a job waits on.                          *)
LEMMA CarriedMoves ==
  ASSUME TypeOK, Carried, Kept,
         \A k \in Keys : keep'[k].pending = None \/ \E l \in Keys : keep'[k].pending = keep[l].pending,
         check' \in {None, check}, fetched' \subseteq fetched,
         album' = None \/ (album # None /\ album'.m = album.m /\ album'.what = album.what),
         entry' = None \/ (entry # None /\ entry'.m = entry.m /\ entry'.do = entry.do /\ entry'.by = entry.by)
  PROVE  Carried'
  <1>1. \A m : Carries(msg, m) => Carries(msg', m) /\ msg'[m].kind = msg[m].kind
    BY DEF Carries, Kept
  <1>2. ASSUME NEW k \in Keys, keep'[k].pending # None
        PROVE  Carries(msg', keep'[k].pending) /\ msg'[keep'[k].pending].kind \in {"usage", "clear"}
    <2>1. PICK l \in Keys : keep'[k].pending = keep[l].pending
      BY <1>2
    <2> QED
      BY <1>1, <1>2, <2>1 DEF Carried
  <1>3. check' # None => Carries(msg', check.m) /\ check' = check /\ ~IsFile(msg', check.m)
    BY <1>1 DEF Carried, IsFile
  <1>4. entry' # None => Carries(msg', entry'.m) /\ ~Opens(msg'[entry'.m].kind) /\ entry'.do = "digit" /\ entry'.by = "answer"
    BY <1>1 DEF Carried
  <1>5. album' # None => Carries(msg', album'.m) /\ IsFile(msg', album'.m) /\ album'.what = "files"
    BY <1>1 DEF Carried, IsFile
  <1>6. \A g \in fetched' : Carries(msg', g.m) /\ ((g.what = "files" /\ IsFile(msg', g.m)) \/ (g.what = "start" /\ msg'[g.m].kind = "new"))
    BY <1>1 DEF Carried, IsFile
  <1>7. ASSUME NEW k \in Keys
        PROVE  keep'[k].pending # None =>
                 Carries(msg', keep'[k].pending) /\ msg'[keep'[k].pending].kind \in {"usage", "clear"}
    BY <1>2
  <1> QED
    BY <1>3, <1>4, <1>5, <1>6, <1>7 DEF Carried

LEMMA CarriedStays ==
  ASSUME TypeOK, Carried, Kept,
         \A k \in Keys : keep'[k].pending \in {None, keep[k].pending},
         check' \in {None, check}, album' \in {None, album}, fetched' \subseteq fetched,
         entry' = None \/ (entry # None /\ entry'.m = entry.m /\ entry'.do = entry.do /\ entry'.by = entry.by)
  PROVE  Carried'
  <1>1. \A k \in Keys : keep'[k].pending = None \/ \E l \in Keys : keep'[k].pending = keep[l].pending
    OBVIOUS
  <1>2. album' = None \/ (album # None /\ album'.m = album.m /\ album'.what = album.what)
    OBVIOUS
  <1> QED
    BY <1>1, <1>2, CarriedMoves

LEMMA JobStays ==
  ASSUME TypeOK, JobCarries, Kept, UNCHANGED opt, job' \in {None, job}
  PROVE  JobCarries'
  <1>1. \A m : Carries(msg, m) => Carries(msg', m) /\ msg'[m].kind = msg[m].kind
    BY DEF Carries, Kept
  <1>2. CASE job' = None
    BY <1>2 DEF JobCarries
  <1>3. CASE job' = job
    BY <1>1, <1>3 DEF JobCarries, Carries, IsFile, Undriven, Has, Dismisses
  <1> QED
    BY <1>2, <1>3

LEMMA ApartStays ==
  ASSUME TypeOK, Apart, album' = None \/ (album # None /\ album'.m = album.m), fetched' \subseteq fetched,
         entry' = None \/ (entry # None /\ entry'.m = entry.m) \/ JobHas(entry'.m),
         \A m : JobHas(m)' => JobHas(m) \/ (entry # None /\ entry.m = m)
  PROVE  Apart'
  BY DEF Apart

LEMMA PaneStays ==
  ASSUME DialogIsBlocked, PickerIsIdle, UNCHANGED <<opt, pane>>
  PROVE  DialogIsBlocked' /\ PickerIsIdle'
  BY DEF DialogIsBlocked, PickerIsIdle, Here, Dialog

(* The pane stands still, or the job is over.                              *)
LEMMA LookStays ==
  ASSUME TypeOK, Looked, UNCHANGED opt, job' \in {None, job},
         \A k \in Keys : keep'[k].typing \in {None, keep[k].typing},
         job' = None \/ pane' = pane \/ ~Settled
  PROVE  Looked'
  <1>1. Has("pencil")' = Has("pencil") /\ Settled' = Settled
    BY DEF Has, Settled
  <1>2. CASE job' = None
    BY <1>1, <1>2 DEF Looked
  <1>3. CASE job' = job /\ pane' = pane
    BY <1>1, <1>3 DEF Looked, Here, Dialog, Waits, Open, Shows
  <1>4. CASE job' = job /\ ~Settled
    BY <1>1, <1>4 DEF Looked
  <1> QED
    BY <1>2, <1>3, <1>4

LEMMA HomeStays ==
  ASSUME TypeOK, Home, UNCHANGED <<opt, topic, known, news>>, Here' => Here /\ pane'.key = pane.key,
         \A k \in Keys : keep'[k].pending \in {None, keep[k].pending} /\ keep'[k].picker \in {None, keep[k].picker}
  PROVE  Home'
  <1>1. OneKey' = OneKey
    BY DEF OneKey, Has
  <1> QED
    BY <1>1 DEF Home

LEMMA NewestStays ==
  ASSUME TypeOK, NewestAsks, UNCHANGED opt, Here' => Here, Kept,
         keep'[First].closing \in {None, keep[First].closing},
         \A n \in DOMAIN msg' : n \notin DOMAIN msg => msg'[n].kind # "close"
  PROVE  NewestAsks'
  <1>1. OneKey' = OneKey
    BY DEF OneKey, Has
  <1>2. \A n \in DOMAIN msg' : msg'[n].kind = "close" => n \in DOMAIN msg /\ msg[n].kind = "close"
    BY DEF Kept
  <1> QED
    BY <1>1, <1>2 DEF NewestAsks

LEMMA PickerStays ==
  ASSUME TypeOK, PickerKnown, UNCHANGED opt, Kept, OpensNothing,
         Here' /\ pane'.view = "picker" => Here /\ pane.view = "picker",
         KnownIdle => KnownIdle', keep'[First].picker = keep[First].picker
  PROVE  PickerKnown'
  <1>1. OneKey' = OneKey /\ InTime' = InTime
    BY DEF OneKey, InTime, Undriven, Has
  <1> SUFFICES ASSUME OneKey, InTime, Here', pane'.view = "picker"
               PROVE  KnownIdle' /\ \E m \in DOMAIN msg' : IsLast(msg', m) /\ Known(m)'
    BY <1>1 DEF PickerKnown
  <1>2. PICK m \in DOMAIN msg : IsLast(msg, m) /\ Known(m)
    BY DEF PickerKnown
  <1>3. IsLast(msg', m) /\ Known(m)'
    BY <1>2, LastStays DEF Known, IdleHold
  <1> QED
    BY <1>3 DEF PickerKnown, IsLast

LEMMA UnheldStays ==
  ASSUME TypeOK, Unheld, UNCHANGED <<opt, pane>>, keep'[First].picker = keep[First].picker, Kept, OpensNothing,
         KnownIdle => KnownIdle', job' \in {None, job}
  PROVE  Unheld'
  <1>1. OneKey' = OneKey /\ InTime' = InTime
    BY DEF OneKey, InTime, Undriven, Has
  <1> SUFFICES ASSUME OneKey, InTime, job' # None, job'.do = "undriven"
               PROVE  /\ keep'[First].picker = None
                      /\ Here /\ Opens(job.kind) /\ pane.status = "idle" =>
                           KnownIdle' /\ IsLast(msg', job.m) /\ msg'[job.m].fate # "sent"
    BY <1>1 DEF Unheld, Here
  <1>2. keep[First].picker = None
    BY DEF Unheld
  <1>3. ASSUME Here, Opens(job.kind), pane.status = "idle"
        PROVE  KnownIdle' /\ IsLast(msg', job.m) /\ msg'[job.m].fate # "sent"
    <2>1. KnownIdle /\ IsLast(msg, job.m) /\ msg[job.m].fate # "sent"
      BY <1>3 DEF Unheld
    <2> QED
      BY <2>1, LastStays
  <1> QED
    BY <1>2, <1>3

LEMMA JobEnds ==
  ASSUME job' = None
  PROVE  JobCarries' /\ Unheld'
  BY DEF JobCarries, Unheld

LEMMA StillMeansNothing ==
  ASSUME Still
  PROVE  NothingUnmeant'
  BY DEF Still, NothingUnmeant

---------------------------------------------------------------------------
(* What a text or a key does to the pane.                                  *)

LEMMA WorldIs ==
  ASSUME TypeOK
  PROVE  opt.agent \in {"claude", "codex"} /\ Dismisses = (opt.agent = "claude")
  BY PromptsAssumption DEF TypeOK, Dismisses

LEMMA RestIs ==
  ASSUME TypeOK, Here
  PROVE  /\ Rest \in Pane /\ Rest.key = pane.key /\ Rest.view = "input" /\ Rest.status = pane.status
         /\ Works \in Pane /\ Works.key = pane.key /\ Works.view = "input" /\ Works.status = "working"
  <1>1. pane \in Pane
    BY DEF TypeOK, Here
  <1>2. <<>> \in Seq(Nat)
    OBVIOUS
  <1> QED
    BY <1>1, <1>2 DEF Rest, Works, Pane, Statuses, Views

(* What both leave true, whatever the pane shows.                          *)
Lands(by, meant) ==
  /\ pane' \in Pane /\ pane'.key = pane.key
  /\ effect'.by = by /\ effect'.meant = meant /\ effect'.question = pane.question
  /\ effect'.what # "gone"
  /\ effect'.what = "choice" => pane.view = "picker"
  /\ effect'.what = "answer" => pane.view = "open"
  /\ effect'.what = "option" => Dialog
  /\ pane'.status = "blocked" <=> pane'.view \in {"menu", "entry", "focusing", "open"}
  /\ pane'.view = "picker" => pane'.status = "idle" /\ opt.agent # "claude"

LEMMA TextLandsMeans ==
  ASSUME TypeOK, DialogIsBlocked, PickerIsIdle, Here, NEW by, NEW kind, NEW meant, TextLands(by, kind, meant)
  PROVE  /\ Lands(by, meant)
         /\ Dialog => effect'.what = IF pane.view = "open" THEN "answer" ELSE "option"
         /\ pane'.view = "picker" =>
              /\ pane.view = "input" /\ pane.status = "idle" /\ kind \in {"usage", "models"}
              /\ effect'.what = "prompt"
  <1>1. /\ pane \in Pane /\ pane.view \in Views /\ pane.status \in Statuses
        /\ pane.status = "blocked" <=> Dialog
        /\ pane.view = "picker" => pane.status = "idle" /\ opt.agent # "claude"
    BY DEF TypeOK, Here, DialogIsBlocked, PickerIsIdle, Pane
  <1>2. CASE Dialog
    <2>1. pane' = Works /\ Effect(by, IF pane.view = "open" THEN "answer" ELSE "option", meant)
      BY <1>2 DEF TextLands, Dialog
    <2> QED
      BY <1>2, <2>1, RestIs DEF Lands, Effect, Statuses
  <1>3. CASE pane.view = "picker"
    <2>1. pane' = Rest /\ Effect(by, "choice", meant)
      BY <1>3 DEF TextLands, Dialog
    <2> QED
      BY <1>1, <1>3, <2>1, RestIs DEF Lands, Effect, Dialog
  <1>4. CASE pane.view = "overlay"
    <2>1. UNCHANGED pane /\ Effect(by, "lost", meant)
      BY <1>4 DEF TextLands, Dialog
    <2> QED
      BY <1>1, <1>4, <2>1 DEF Lands, Effect, Dialog
  <1>5. CASE pane.view = "input"
    <2> DEFINE opened == IF opt.agent = "claude" THEN "overlay" ELSE "picker"
    <2>1. /\ Effect(by, "prompt", meant)
          /\ IF kind \in {"usage", "models"} /\ pane.status = "idle" /\ pane.box = <<>>
             THEN pane' = [pane EXCEPT !.view = opened]
             ELSE pane' = IF kind = "clear" /\ pane.box = <<>> THEN pane ELSE Works
      BY <1>5 DEF TextLands, Dialog
    <2>2. pane.status # "blocked"
      BY <1>1, <1>5 DEF Dialog
    <2>3. CASE pane' = [pane EXCEPT !.view = opened] /\ kind \in {"usage", "models"} /\ pane.status = "idle"
      <3>1. opened \in Views /\ opened \notin {"menu", "entry", "focusing", "open"}
        BY DEF Views
      <3>2. pane' \in Pane /\ pane'.key = pane.key /\ pane'.view = opened /\ pane'.status = pane.status
        BY <1>1, <2>3, <3>1 DEF Pane
      <3> QED
        BY <1>5, <2>1, <2>2, <2>3, <3>1, <3>2 DEF Lands, Effect, Dialog
    <2>4. CASE pane' = pane
      BY <1>1, <1>5, <2>1, <2>2, <2>4 DEF Lands, Effect, Dialog
    <2>5. CASE pane' = Works
      BY <1>1, <1>5, <2>1, <2>2, <2>5, RestIs DEF Lands, Effect, Dialog
    <2> QED
      BY <2>1, <2>3, <2>4, <2>5
  <1> QED
    BY <1>1, <1>2, <1>3, <1>4, <1>5 DEF Dialog, Views

LEMMA KeyLandsMeans ==
  ASSUME TypeOK, DialogIsBlocked, PickerIsIdle, Here, NEW by, NEW key, NEW meant, KeyLands(by, key, meant)
  PROVE  /\ Lands(by, meant)
         /\ pane'.view = "picker" => pane' = pane
         /\ effect'.what = "option" => ~(key = "digit" /\ pane.view = "entry") /\ key # "esc"
         /\ effect'.what # "answer"
  <1>1. /\ pane \in Pane /\ pane.view \in Views /\ pane.status \in Statuses
        /\ pane.status = "blocked" <=> Dialog
        /\ pane.view = "picker" => pane.status = "idle" /\ opt.agent # "claude"
    BY DEF TypeOK, Here, DialogIsBlocked, PickerIsIdle, Pane
  <1>2. CASE key = "digit" /\ pane.view = "entry"
    <2>1. pane' = [pane EXCEPT !.view = "focusing"] /\ Effect(by, "focus", meant)
      BY <1>2 DEF KeyLands
    <2> QED
      BY <1>1, <1>2, <2>1 DEF Lands, Effect, Dialog, Pane, Views
  <1>3. CASE UNCHANGED pane /\ Effect(by, "nothing", meant)
    BY <1>1, <1>3 DEF Lands, Effect, Dialog
  <1>4. CASE pane' = Works /\ Effect(by, "option", meant) /\ Dialog /\ key \in {"digit", "enter"} /\ ~(key = "digit" /\ pane.view = "entry")
    BY <1>1, <1>4, RestIs DEF Lands, Effect
  <1>5. CASE pane.view = "picker" /\ pane' = Rest /\ Effect(by, "choice", meant)
    BY <1>1, <1>5, RestIs DEF Lands, Effect, Dialog
  <1>6. CASE pane' = Works /\ Effect(by, "prompt", meant)
    BY <1>1, <1>6, RestIs DEF Lands, Effect, Dialog
  <1>7. CASE Dialog /\ pane' = [Rest EXCEPT !.status = "idle"] /\ Effect(by, "closed", meant)
    <2>1. pane' \in Pane /\ pane'.key = pane.key /\ pane'.view = "input" /\ pane'.status = "idle"
      BY <1>7, RestIs DEF Pane, Statuses
    <2> QED
      BY <1>7, <2>1 DEF Lands, Effect
  <1>8. CASE ~Dialog /\ pane' = Rest /\ Effect(by, "closed", meant)
    BY <1>1, <1>8, RestIs DEF Lands, Effect
  <1>9. CASE pane.view = "input" /\ pane' = [pane EXCEPT !.status = "idle"] /\ Effect(by, "interrupt", meant)
    <2>1. pane' \in Pane /\ pane'.key = pane.key /\ pane'.view = "input" /\ pane'.status = "idle"
      BY <1>1, <1>9 DEF Pane, Statuses
    <2> QED
      BY <1>9, <2>1 DEF Lands, Effect
  <1> QED
    BY <1>2, <1>3, <1>4, <1>5, <1>6, <1>7, <1>8, <1>9 DEF KeyLands

LEMMA LandsKeeps ==
  ASSUME TypeOK, DialogIsBlocked, PickerIsIdle, UNCHANGED opt, NEW by, NEW meant, Lands(by, meant)
  PROVE  DialogIsBlocked' /\ PickerIsIdle'
  BY DEF Lands, DialogIsBlocked, PickerIsIdle, Here, Dialog

---------------------------------------------------------------------------
(* The steps.                                                              *)

(* A step that does nothing to the pane and lets nothing new wait: but for *)
(* the job, and altogether.                                                *)
LEMMA QuietButJob ==
  ASSUME TypeOK, IInv, Still, Kept, OpensNothing, UNCHANGED <<opt, pane, topic, known, news>>,
         \A k \in Keys : /\ keep'[k].pending \in {None, keep[k].pending}
                         /\ keep'[k].picker = keep[k].picker
                         /\ keep'[k].closing \in {None, keep[k].closing},
         check' \in {None, check}, album' \in {None, album}, fetched' \subseteq fetched,
         entry' = None \/ (entry # None /\ entry'.m = entry.m /\ entry'.do = entry.do /\ entry'.by = entry.by),
         \A n \in DOMAIN msg' : n \notin DOMAIN msg => msg'[n].kind # "close"
  PROVE  /\ DialogIsBlocked' /\ PickerIsIdle' /\ Carried' /\ Home' /\ NewestAsks' /\ PickerKnown' /\ NothingUnmeant'
         /\ (KnownIdle => KnownIdle') /\ keep'[First].picker = keep[First].picker
  <1>1. First \in Keys
    BY PromptsAssumption
  <1>2. DialogIsBlocked' /\ PickerIsIdle'
    BY PaneStays DEF IInv
  <1>3. Carried'
    BY CarriedStays DEF IInv
  <1>5. Home'
    BY HomeStays DEF IInv, Here
  <1>6. NewestAsks'
    BY <1>1, NewestStays DEF IInv, Here
  <1>7. (KnownIdle => KnownIdle') /\ keep'[First].picker = keep[First].picker
    BY <1>1 DEF KnownIdle
  <1>8. PickerKnown'
    BY <1>7, PickerStays DEF IInv, Here
  <1> QED
    BY <1>2, <1>3, <1>5, <1>6, <1>7, <1>8, StillMeansNothing DEF IInv

LEMMA QuietKeeps ==
  ASSUME TypeOK, IInv, Still, Kept, OpensNothing, UNCHANGED <<opt, pane, topic, known, news>>,
         \A k \in Keys : /\ keep'[k].pending \in {None, keep[k].pending}
                         /\ keep'[k].typing \in {None, keep[k].typing}
                         /\ keep'[k].picker = keep[k].picker
                         /\ keep'[k].closing \in {None, keep[k].closing},
         check' \in {None, check}, album' \in {None, album}, fetched' \subseteq fetched,
         entry' = None \/ (entry # None /\ entry'.m = entry.m /\ entry'.do = entry.do /\ entry'.by = entry.by),
         job' \in {None, job},
         \A n \in DOMAIN msg' : n \notin DOMAIN msg => msg'[n].kind # "close"
  PROVE  IInv'
  <1>1. /\ DialogIsBlocked' /\ PickerIsIdle' /\ Carried' /\ Home' /\ NewestAsks' /\ PickerKnown' /\ NothingUnmeant'
        /\ (KnownIdle => KnownIdle') /\ keep'[First].picker = keep[First].picker
    BY QuietButJob
  <1>2. JobCarries'
    BY JobStays DEF IInv
  <1>3. \A m : JobHas(m)' => JobHas(m)
    BY DEF JobHas
  <1>4. Apart'
    BY <1>3, ApartStays DEF IInv
  <1>5. Looked'
    BY LookStays DEF IInv
  <1>6. Unheld'
    BY <1>1, UnheldStays DEF IInv
  <1> QED
    BY <1>1, <1>2, <1>4, <1>5, <1>6 DEF IInv

(* A carried message that opens nothing, or is not posted, gets its end.   *)
LEMMA FateIsQuiet ==
  ASSUME TypeOK, NEW S, NEW f \in Fates, Fate(S, f), f # "held",
         \A m \in S : Carries(msg, m) /\ (f = "sent" => ~Opens(msg[m].kind))
  PROVE  /\ Kept /\ OpensNothing
         /\ DOMAIN msg' = DOMAIN msg
  <1>1. msg \in Seq(Message)
    BY DEF TypeOK
  <1>2. /\ msg' \in Seq(Message) /\ DOMAIN msg' = DOMAIN msg
        /\ \A n \in DOMAIN msg : msg'[n].kind = msg[n].kind /\ msg'[n].fate = IF n \in S THEN f ELSE msg[n].fate
    BY <1>1, FateMeans
  <1> QED
    BY <1>2 DEF Kept, OpensNothing, Carries

LEMMA SameIsQuiet ==
  ASSUME TypeOK, UNCHANGED msg
  PROVE  Kept /\ OpensNothing /\ DOMAIN msg' = DOMAIN msg
  BY SameKeeps DEF OpensNothing, TypeOK

LEMMA ArrivalIsQuiet ==
  ASSUME TypeOK, NEW k \in Kinds, NEW f \in Fates, Arrives(k, f), ~Opens(k)
  PROVE  Kept /\ OpensNothing
  <1>1. msg \in Seq(Message)
    BY DEF TypeOK
  <1> QED
    BY <1>1, ArrivesMeans, ArrivesKeeps DEF OpensNothing

LEMMA CountsStay ==
  ASSUME TypeOK, Succeeds \/ Fails
  PROVE  spent' \in [questions: Nat, presses: Nat, failures: Nat]
  BY DEF TypeOK, Succeeds, Fails

LEMMA FireTypedKeeps ==
  ASSUME TypeOK, IInv, FireTyped
  PROVE  TypeOK' /\ IInv'
  <1>1. Carries(msg, check.m)
    BY DEF IInv, Carried, FireTyped
  <1>2. Fate({check.m}, "stuck") \/ UNCHANGED msg
    BY DEF FireTyped
  <1>3. Kept /\ OpensNothing /\ DOMAIN msg' = DOMAIN msg
    <2>1. CASE Fate({check.m}, "stuck")
      <3>1. \A m \in {check.m} : Carries(msg, m)
        BY <1>1
      <3>2. "stuck" \in Fates
        BY DEF Fates
      <3> QED
        BY <2>1, <3>1, <3>2, FateIsQuiet
    <2>2. CASE UNCHANGED msg
      BY <2>2, SameIsQuiet
    <2> QED
      BY <1>2, <2>1, <2>2
  <1>4. /\ Still /\ check' = None
        /\ UNCHANGED <<opt, known, topic, news, pane, keep, entry, album, fetched, job>>
        /\ Succeeds \/ Fails
    BY DEF FireTyped, outside, files
  <1>5. TypeOK'
    BY <1>3, <1>4, CountsStay DEF TypeOK, Kept
  <1> QED
    BY <1>3, <1>4, <1>5, QuietKeeps

LEMMA TimerFiresKeeps ==
  ASSUME TypeOK, IInv, NEW k \in Keys, TimerFires(k)
  PROVE  TypeOK' /\ IInv'
  <1>1. /\ Still
        /\ UNCHANGED <<opt, known, topic, news, pane, keep, entry, check, album, fetched, job, msg, spent>>
    BY DEF TimerFires, outside, files
  <1>2. TypeOK'
    BY <1>1 DEF TypeOK
  <1> QED
    BY <1>1, <1>2, QuietKeeps, SameIsQuiet

LEMMA StartFinishedKeeps ==
  ASSUME TypeOK, IInv, NEW g \in fetched, StartFinished(g)
  PROVE  TypeOK' /\ IInv'
  <1>1. Carries(msg, g.m) /\ msg[g.m].kind = "new"
    BY DEF IInv, Carried, StartFinished
  <1>2. PICK fate \in {"sent", "failed"} : Fate({g.m}, fate)
    BY DEF StartFinished
  <1>3. Kept /\ OpensNothing /\ DOMAIN msg' = DOMAIN msg
    <2>1. \A m \in {g.m} : Carries(msg, m) /\ ~Opens(msg[m].kind)
      BY <1>1 DEF Opens
    <2>2. fate \in Fates /\ fate # "held"
      BY DEF Fates
    <2> QED
      BY <1>2, <2>1, <2>2, FateIsQuiet
  <1>4. /\ Still /\ fetched' = fetched \ {g}
        /\ UNCHANGED <<opt, known, topic, news, pane, keep, entry, check, album, job, spent>>
    BY DEF StartFinished, outside
  <1>5. TypeOK'
    BY <1>3, <1>4 DEF TypeOK, Kept
  <1> QED
    BY <1>3, <1>4, <1>5, QuietKeeps

LEMMA PostQuestionKeeps ==
  ASSUME TypeOK, IInv, NEW k \in Keys, PostQuestion(k)
  PROVE  TypeOK' /\ IInv'
  <1> DEFINE kb == [q |-> pane.question, entry |-> pane.view = "entry"]
  <1>1. /\ Still /\ Here
        /\ keep' = [keep EXCEPT ![k] = [@ EXCEPT !.kb = kb, !.typing = None]]
        /\ UNCHANGED <<opt, known, topic, news, pane, entry, check, album, fetched, job, msg, spent>>
    BY DEF PostQuestion, outside, files
  <1>2. kb \in [q: Nat, entry: BOOLEAN]
    BY <1>1 DEF TypeOK, Here, Pane
  <1> HIDE DEF kb
  <1>3. \A l \in Keys : /\ keep[l] \in Record /\ keep'[l] \in Record
                        /\ keep'[l].pending = keep[l].pending /\ keep'[l].typing \in {None, keep[l].typing}
                        /\ keep'[l].picker = keep[l].picker /\ keep'[l].closing = keep[l].closing
    BY <1>1, <1>2 DEF TypeOK, Record
  <1>4. TypeOK'
    BY <1>1, <1>3 DEF TypeOK
  <1> QED
    BY <1>1, <1>3, <1>4, QuietKeeps, SameIsQuiet

LEMMA FireAlbumKeeps ==
  ASSUME TypeOK, IInv, FireAlbum
  PROVE  TypeOK' /\ IInv'
  <1>1. /\ Still /\ job = None /\ album # None /\ fetched' = fetched \cup {album} /\ album' = None
        /\ UNCHANGED <<opt, known, topic, news, pane, keep, entry, check, job, msg, spent>>
    BY DEF FireAlbum, outside
  <1>2. TypeOK'
    BY <1>1 DEF TypeOK
  <1>3. Kept /\ OpensNothing /\ DOMAIN msg' = DOMAIN msg
    BY <1>1, SameIsQuiet
  <1>4. Carried'
    BY <1>1 DEF IInv, Carried
  <1>5. Apart'
    BY <1>1 DEF IInv, Apart, JobHas
  <1>6. DialogIsBlocked' /\ PickerIsIdle'
    BY <1>1, PaneStays DEF IInv
  <1>7. JobCarries' /\ Looked' /\ Unheld'
    BY <1>1, <1>3, LookStays, JobEnds DEF IInv
  <1>8. Home' /\ NewestAsks'
    BY <1>1, <1>3, HomeStays, NewestStays DEF IInv, Here
  <1>9. PickerKnown'
    BY <1>1, <1>3, PickerStays DEF IInv, Here, KnownIdle
  <1> QED
    BY <1>1, <1>2, <1>4, <1>5, <1>6, <1>7, <1>8, <1>9, StillMeansNothing DEF IInv

LEMMA FireSubmitKeeps ==
  ASSUME TypeOK, IInv, FireSubmit
  PROVE  TypeOK' /\ IInv'
  <1>1. /\ Still /\ job = None /\ (Succeeds \/ Fails)
        /\ UNCHANGED <<opt, known, topic, news, pane, keep, entry, check, album, fetched, msg>>
        /\ \/ job' = None
           \/ job' = [do |-> "enter"] /\ Here /\ ~Dialog
    BY DEF FireSubmit, outside
  <1>2. TypeOK'
    BY <1>1, CountsStay DEF TypeOK, Jobs
  <1>3. Kept /\ OpensNothing /\ DOMAIN msg' = DOMAIN msg
    BY <1>1, SameIsQuiet
  <1>4. CASE job' = None
    BY <1>1, <1>2, <1>3, <1>4, QuietKeeps
  <1>5. CASE job' = [do |-> "enter"] /\ Here /\ ~Dialog
    <2>1. job'.do = "enter"
      BY <1>5
    <2>2. JobCarries' /\ Unheld'
      BY <2>1 DEF JobCarries, Unheld, Texts
    <2>3. Apart'
      BY <1>1, <2>1, ApartStays DEF IInv, JobHas, Texts
    <2>4. Looked'
      BY <1>1, <1>5, <2>1 DEF IInv, Looked, Has, Settled, Here, Dialog
    <2> QED
      BY <1>1, <1>2, <1>3, <2>2, <2>3, <2>4, QuietButJob DEF IInv
  <1> QED
    BY <1>1, <1>4, <1>5

LEMMA AnswerIs ==
  ASSUME NEW m \in Nat, NEW q \in Nat, NEW by \in {"answer", "pencil"}, topic \in Keys
  PROVE  /\ Answer(m, q, by) \in Answers /\ Answer(m, q, by).do = "type" /\ Answer(m, q, by).m = m
         /\ Answer(m, q, by).q = q /\ Answer(m, q, by).by = by
  BY DEF Answer, Answers

LEMMA TextJobIs ==
  ASSUME TypeOK, JobCarries, job # None, job.do \in Texts
  PROVE  job.m \in Nat /\ Carries(msg, job.m) /\ ~Opens(msg[job.m].kind) /\ JobHas(job.m)
  <1>1. Carries(msg, job.m) /\ ~Opens(msg[job.m].kind)
    BY DEF JobCarries
  <1>2. job.m \in Nat
    BY <1>1 DEF TypeOK, Carries
  <1> QED
    BY <1>1, <1>2 DEF JobHas

LEMMA AnswerBlockedKeeps ==
  ASSUME TypeOK, IInv, AnswerBlocked
  PROVE  TypeOK' /\ IInv'
  <1> DEFINE m == job.m
             kb == keep[topic].kb
             q == IF kb = None THEN 0 ELSE kb.q
  <1>1. /\ Still /\ job # None /\ job.do = "blocked" /\ (Succeeds \/ Fails)
        /\ UNCHANGED <<opt, known, topic, news, pane, keep, entry, check, album, fetched>>
        /\ \/ Fate({m}, "refused") /\ job' = None
           \/ Open(q) /\ job' = Answer(m, q, "answer") /\ UNCHANGED msg
           \/ Waits(q) /\ job' = [Answer(m, q, "answer") EXCEPT !.do = "digit"] /\ UNCHANGED msg
    BY DEF AnswerBlocked, outside, files
  <1>2. m \in Nat /\ Carries(msg, m) /\ ~Opens(msg[m].kind) /\ JobHas(m)
    BY <1>1, TextJobIs DEF IInv, Texts
  <1>3. q \in Nat /\ topic \in Keys
    BY DEF TypeOK, Record
  <1> HIDE DEF m, q
  <1>4. Kept /\ OpensNothing /\ DOMAIN msg' = DOMAIN msg
    <2>1. ASSUME NEW f \in {"refused"}, Fate({m}, f) PROVE Kept /\ OpensNothing /\ DOMAIN msg' = DOMAIN msg
      <3>1. f \in Fates /\ f # "held" /\ f # "sent"
        BY DEF Fates
      <3>2. \A n \in {m} : Carries(msg, n)
        BY <1>2
      <3> QED
        BY <2>1, <3>1, <3>2, FateIsQuiet
    <2> QED
      BY <1>1, <2>1, SameIsQuiet
  <1>5. CASE job' = None
    <2>1. TypeOK'
      BY <1>1, <1>4, <1>5, CountsStay DEF TypeOK, Kept
    <2> QED
      BY <1>1, <1>4, <1>5, <2>1, QuietKeeps
  <1>6. CASE /\ job' \in Answers /\ job'.m = m /\ job'.q = q /\ job'.by = "answer" /\ UNCHANGED msg
             /\ (job'.do = "type" /\ Open(q)) \/ (job'.do = "digit" /\ Waits(q))
    <2>1. TypeOK'
      BY <1>1, <1>4, <1>6, CountsStay DEF TypeOK, Kept, Jobs
    <2>2. JobCarries' /\ Unheld'
      BY <1>2, <1>6 DEF JobCarries, Unheld, Texts
    <2>3. \A n : JobHas(n)' => JobHas(n)
      BY <1>2, <1>6 DEF JobHas
    <2>4. Apart'
      BY <1>1, <2>3, ApartStays DEF IInv
    <2>5. Looked'
      BY <1>1, <1>6 DEF IInv, Looked, Has, Settled, Here, Dialog, Open, Waits, Shows
    <2> QED
      BY <1>1, <1>4, <2>1, <2>2, <2>4, <2>5, QuietButJob DEF IInv
  <1>7. /\ Answer(m, q, "answer") \in Answers /\ Answer(m, q, "answer").do = "type"
        /\ Answer(m, q, "answer").m = m /\ Answer(m, q, "answer").q = q /\ Answer(m, q, "answer").by = "answer"
    BY <1>2, <1>3, AnswerIs
  <1> DEFINE d == [Answer(m, q, "answer") EXCEPT !.do = "digit"]
  <1>8. d \in Answers /\ d.do = "digit" /\ d.m = m /\ d.q = q /\ d.by = "answer"
    BY <1>7 DEF Answers
  <1>9. job' = None \/ (job' = Answer(m, q, "answer") /\ Open(q) /\ UNCHANGED msg) \/ (job' = d /\ Waits(q) /\ UNCHANGED msg)
    BY <1>1, Zenon
  <1> HIDE DEF d
  <1> QED
    BY <1>5, <1>6, <1>7, <1>8, <1>9

LEMMA PollEntryKeeps ==
  ASSUME TypeOK, IInv, PollEntry
  PROVE  TypeOK' /\ IInv'
  <1>1. /\ Still /\ job = None /\ entry # None /\ (Succeeds \/ Fails)
        /\ UNCHANGED <<opt, known, topic, news, pane, keep, check, album, fetched>>
        /\ \/ Fate({entry.m}, "dropped") /\ entry' = None /\ UNCHANGED job
           \/ Open(entry.q) /\ job' = [entry EXCEPT !.do = "type"] /\ entry' = None /\ UNCHANGED msg
           \/ UNCHANGED job /\ entry' = [entry EXCEPT !.polls = @ + 1] /\ UNCHANGED msg
           \/ UNCHANGED job /\ entry' = None /\ Fate({entry.m}, "refused")
    BY DEF PollEntry, outside, files
  <1>2. /\ entry \in Answers /\ Carries(msg, entry.m) /\ ~Opens(msg[entry.m].kind)
        /\ entry.do = "digit" /\ entry.by = "answer"
    BY <1>1 DEF TypeOK, IInv, Carried
  <1>3. Kept /\ OpensNothing /\ DOMAIN msg' = DOMAIN msg
    <2>1. ASSUME NEW f \in {"refused", "dropped"}, Fate({entry.m}, f) PROVE Kept /\ OpensNothing /\ DOMAIN msg' = DOMAIN msg
      <3>1. f \in Fates /\ f # "held" /\ f # "sent"
        BY DEF Fates
      <3>2. \A n \in {entry.m} : Carries(msg, n)
        BY <1>2
      <3> QED
        BY <2>1, <3>1, <3>2, FateIsQuiet
    <2> QED
      BY <1>1, <2>1, SameIsQuiet
  <1>4. CASE UNCHANGED job
    <2>1. entry' = None \/ (entry' \in Answers /\ entry'.m = entry.m /\ entry'.do = entry.do /\ entry'.by = entry.by)
      BY <1>1, <1>2, <1>4 DEF Answers
    <2>2. TypeOK'
      BY <1>1, <1>3, <1>4, <2>1, CountsStay DEF TypeOK, Kept
    <2> QED
      BY <1>1, <1>3, <1>4, <2>1, <2>2, QuietKeeps
  <1>5. CASE Open(entry.q) /\ job' = [entry EXCEPT !.do = "type"] /\ entry' = None
    <2>1. job' \in Answers /\ job'.do = "type" /\ job'.m = entry.m /\ job'.q = entry.q /\ job'.by = "answer"
      BY <1>2, <1>5 DEF Answers
    <2>2. TypeOK'
      BY <1>1, <1>3, <1>5, <2>1, CountsStay DEF TypeOK, Kept, Jobs
    <2>3. Carries(msg', entry.m) /\ ~Opens(msg'[entry.m].kind)
      BY <1>2, <1>3 DEF Kept, Carries
    <2>4. JobCarries' /\ Unheld'
      BY <2>1, <2>3 DEF JobCarries, Unheld, Texts
    <2>5. \A n : JobHas(n)' => entry # None /\ entry.m = n
      BY <1>1, <2>1 DEF JobHas
    <2>6. Apart'
      BY <1>1, <1>5, <2>5, ApartStays DEF IInv
    <2>7. Looked'
      BY <1>1, <1>5, <2>1 DEF IInv, Looked, Has, Settled, Here, Dialog, Open, Waits, Shows
    <2> QED
      BY <1>1, <1>3, <1>5, <2>2, <2>4, <2>6, <2>7, QuietButJob DEF IInv
  <1> QED
    BY <1>1, <1>4, <1>5

(* A text or a key arrives in the pane.                                    *)
LEMMA LandedKeeps ==
  ASSUME TypeOK, IInv, Here, NEW by, NEW meant, Lands(by, meant), Kept, UNCHANGED <<opt, topic, known, news>>,
         \A k \in Keys : /\ keep'[k].pending \in {None, keep[k].pending}
                         /\ keep'[k].picker \in {None, keep[k].picker}
                         /\ keep'[k].closing \in {None, keep[k].closing},
         \A n \in DOMAIN msg' : n \notin DOMAIN msg => msg'[n].kind # "close"
  PROVE  DialogIsBlocked' /\ PickerIsIdle' /\ Home' /\ NewestAsks'
  <1>1. First \in Keys
    BY PromptsAssumption
  <1>2. DialogIsBlocked' /\ PickerIsIdle'
    BY LandsKeeps DEF IInv
  <1>3. pane'.key = pane.key
    BY DEF Lands
  <1>4. Home'
    BY <1>3, HomeStays DEF IInv, Here
  <1>5. NewestAsks'
    BY <1>1, NewestStays DEF IInv, Here
  <1> QED
    BY <1>2, <1>4, <1>5

LEMMA LandedIsMeant ==
  ASSUME TypeOK, UNCHANGED opt, NEW by, NEW meant, Lands(by, meant), by # "prompt",
         Settled => /\ effect'.what = "option" => by = "operator"
                    /\ effect'.what = "answer" /\ by = "answer" => pane.question = meant
  PROVE  NothingUnmeant'
  <1>1. /\ effect'.by = by /\ effect'.meant = meant /\ effect'.question = pane.question
        /\ effect'.what # "gone"
    BY DEF Lands
  <1>2. Settled' = Settled
    BY DEF Settled, Has
  <1> QED
    BY <1>1, <1>2 DEF NothingUnmeant

LEMMA PickerGone ==
  ASSUME ~(Here' /\ pane'.view = "picker")
  PROVE  PickerKnown'
  BY DEF PickerKnown

LEMMA MarkedIs ==
  ASSUME TypeOK, NEW k \in Keys, NEW q, keep' = [keep EXCEPT ![k] = Marked(@, q)]
  PROVE  /\ keep' \in [Keys -> Record]
         /\ \A l \in Keys : /\ keep'[l].pending = keep[l].pending /\ keep'[l].typing \in {None, keep[l].typing}
                            /\ keep'[l].picker = keep[l].picker /\ keep'[l].closing = keep[l].closing
  <1> DEFINE r == keep[k]
             kb == IF r.kb = None THEN None ELSE IF r.kb.q = q THEN None ELSE r.kb
             typing == IF r.typing = q THEN None ELSE r.typing
             marked == [r EXCEPT !.kb = kb, !.typing = typing]
  <1>1. r \in Record
    BY DEF TypeOK
  <1>2. /\ kb \in [q: Nat, entry: BOOLEAN] \cup {None} /\ typing \in Nat \cup {None} /\ typing \in {None, r.typing}
    BY <1>1 DEF Record
  <1>3. keep' = [keep EXCEPT ![k] = marked]
    BY DEF Marked
  <1> HIDE DEF kb, typing
  <1>4. /\ marked \in Record /\ marked.pending = r.pending /\ marked.typing \in {None, r.typing}
        /\ marked.picker = r.picker /\ marked.closing = r.closing
    BY <1>1, <1>2 DEF Record
  <1> HIDE DEF marked
  <1>5. keep' \in [Keys -> Record]
    BY <1>3, <1>4 DEF TypeOK
  <1>6. \A l \in Keys : keep'[l] = IF l = k THEN marked ELSE keep[l]
    BY <1>3 DEF TypeOK
  <1> QED
    BY <1>4, <1>5, <1>6

(* The text of a job gets its end with the job.                            *)
LEMMA TextEnds ==
  ASSUME TypeOK, IInv, job # None, job.do \in Texts, NEW f \in {"sent", "failed"}, Fate({job.m}, f)
  PROVE  Kept /\ OpensNothing /\ DOMAIN msg' = DOMAIN msg
  <1>1. f \in Fates /\ f # "held"
    BY DEF Fates
  <1>2. \A n \in {job.m} : Carries(msg, n) /\ ~Opens(msg[n].kind)
    BY TextJobIs DEF IInv
  <1> QED
    BY <1>1, <1>2, FateIsQuiet

LEMMA PressDigitKeeps ==
  ASSUME TypeOK, IInv, PressDigit
  PROVE  TypeOK' /\ IInv'
  <1>1. /\ job # None /\ job.do = "digit" /\ job' = None /\ (Succeeds \/ Fails)
        /\ UNCHANGED <<opt, known, topic, news, keep, check, album, fetched>>
        /\ \/ Here /\ KeyLands("answer", "digit", job.q) /\ entry' = job /\ UNCHANGED msg
           \/ Fate({job.m}, "failed") /\ UNCHANGED <<pane, entry>> /\ Still
    BY DEF PressDigit, outside, files
  <1>2. /\ job.m \in Nat /\ Carries(msg, job.m) /\ ~Opens(msg[job.m].kind) /\ JobHas(job.m)
        /\ job.by = "answer"
    BY <1>1, TextJobIs DEF IInv, Texts, JobCarries
  <1>3. Kept /\ OpensNothing /\ DOMAIN msg' = DOMAIN msg
    BY <1>1, TextEnds, SameIsQuiet DEF Texts
  <1>4. CASE UNCHANGED <<pane, entry>> /\ Still
    <2>1. TypeOK'
      BY <1>1, <1>3, <1>4, CountsStay DEF TypeOK, Kept
    <2> QED
      BY <1>1, <1>3, <1>4, <2>1, QuietKeeps
  <1>5. CASE Here /\ KeyLands("answer", "digit", job.q) /\ entry' = job /\ UNCHANGED msg
    <2>1. job \in Answers
      BY <1>1 DEF TypeOK, Jobs
    <2>2. /\ Lands("answer", job.q) /\ effect'.what # "answer"
          /\ pane'.view = "picker" => pane' = pane
          /\ effect'.what = "option" => pane.view # "entry"
      BY <1>5, KeyLandsMeans DEF IInv
    <2>3. TypeOK'
      BY <1>1, <1>3, <1>5, <2>1, <2>2, CountsStay DEF TypeOK, Kept, Lands
    <2>4. DialogIsBlocked' /\ PickerIsIdle' /\ Home' /\ NewestAsks'
      BY <1>1, <1>3, <1>5, <2>2, LandedKeeps
    <2>5. Carried'
      BY <1>1, <1>2, <1>5 DEF IInv, Carried
    <2>6. JobCarries' /\ Unheld'
      BY <1>1, JobEnds
    <2>7. Apart'
      BY <1>1, <1>2, <1>5, ApartStays DEF IInv, JobHas
    <2>8. Looked'
      BY <1>1, LookStays DEF IInv
    <2>9. PickerKnown'
      BY <1>1, <1>3, <1>5, <2>2, PickerStays DEF IInv, KnownIdle
    <2>10. Settled => pane.view = "entry"
      BY <1>1 DEF IInv, Looked, Waits
    <2>11. NothingUnmeant'
      BY <1>1, <2>2, <2>10, LandedIsMeant
    <2> QED
      BY <2>3, <2>4, <2>5, <2>6, <2>7, <2>8, <2>9, <2>11 DEF IInv
  <1> QED
    BY <1>1, <1>4, <1>5

(* The text of a job lands in the pane.                                    *)
LEMMA TextJobLands ==
  ASSUME TypeOK, IInv, job # None, job.do \in {"type", "pencil"}, job' = None, Here, Succeeds,
         UNCHANGED <<opt, known, topic, news, entry, check, album, fetched>>, Fate({job.m}, "sent"),
         NEW by \in {"answer", "pencil"}, TextLands(by, "plain", job.q), job.do = "type" => by = job.by,
         job.do = "pencil" => by = "pencil", NEW k \in Keys, keep' = [keep EXCEPT ![k] = Marked(@, job.q)]
  PROVE  TypeOK' /\ IInv'
  <1>1. Kept /\ OpensNothing /\ DOMAIN msg' = DOMAIN msg
    BY TextEnds DEF Texts
  <1>2. /\ Lands(by, job.q) /\ pane'.view # "picker"
        /\ Dialog => effect'.what = IF pane.view = "open" THEN "answer" ELSE "option"
    BY TextLandsMeans DEF IInv
  <1>3. keep' \in [Keys -> Record]
        /\ \A l \in Keys : /\ keep'[l].pending = keep[l].pending /\ keep'[l].typing \in {None, keep[l].typing}
                           /\ keep'[l].picker = keep[l].picker /\ keep'[l].closing = keep[l].closing
    BY MarkedIs
  <1>4. TypeOK'
    BY <1>1, <1>2, <1>3, CountsStay DEF TypeOK, Kept, Lands
  <1>5. DialogIsBlocked' /\ PickerIsIdle' /\ Home' /\ NewestAsks'
    BY <1>1, <1>2, <1>3, LandedKeeps
  <1>6. Carried'
    BY <1>1, <1>3, CarriedStays DEF IInv
  <1>7. JobCarries' /\ Unheld' /\ PickerKnown'
    BY <1>2, JobEnds, PickerGone
  <1>8. Apart'
    BY ApartStays DEF IInv, JobHas
  <1>9. Looked'
    BY <1>3, LookStays DEF IInv
  <1>10. NothingUnmeant'
    <2>1. Settled => Open(job.q) /\ by = "answer"
      BY DEF IInv, Looked, Settled
    <2>2. Settled => Dialog /\ pane.view = "open" /\ pane.question = job.q
      BY <2>1 DEF Open, Shows
    <2>3. by # "prompt"
      OBVIOUS
    <2>4. Settled => effect'.what = "answer" /\ pane.question = job.q
      BY <1>2, <2>2
    <2> QED
      BY <1>2, <2>3, <2>4, LandedIsMeant
  <1> QED
    BY <1>4, <1>5, <1>6, <1>7, <1>8, <1>9, <1>10 DEF IInv

LEMMA TypeAnswerKeeps ==
  ASSUME TypeOK, IInv, TypeAnswer
  PROVE  TypeOK' /\ IInv'
  <1>1. /\ job # None /\ job.do = "type" /\ job' = None
        /\ UNCHANGED <<opt, known, topic, news, entry, check, album, fetched>>
    BY DEF TypeAnswer, outside, files
  <1>2. job \in Answers
    BY <1>1 DEF TypeOK, Jobs
  <1>3. CASE /\ Here /\ Succeeds /\ TextLands(job.by, "plain", job.q)
             /\ keep' = [keep EXCEPT ![job.key] = Marked(@, job.q)] /\ Fate({job.m}, "sent")
    <2>1. job.key \in Keys /\ job.by \in {"answer", "pencil"}
      BY <1>2 DEF Answers
    <2> QED
      BY <1>1, <1>3, <2>1, TextJobLands
  <1>4. CASE Fate({job.m}, "failed") /\ UNCHANGED <<pane, keep>> /\ Still /\ (Succeeds \/ Fails)
    <2>1. Kept /\ OpensNothing /\ DOMAIN msg' = DOMAIN msg
      BY <1>1, <1>4, TextEnds DEF Texts
    <2>2. TypeOK'
      BY <1>1, <1>4, <2>1, CountsStay DEF TypeOK, Kept
    <2> QED
      BY <1>1, <1>4, <2>1, <2>2, QuietKeeps
  <1> QED
    BY <1>3, <1>4 DEF TypeAnswer

LEMMA TypeAfterPressKeeps ==
  ASSUME TypeOK, IInv, TypeAfterPress
  PROVE  TypeOK' /\ IInv'
  <1>1. /\ job # None /\ job.do = "pencil" /\ Succeeds
        /\ UNCHANGED <<opt, known, topic, news, entry, check, album, fetched>>
    BY DEF TypeAfterPress, outside, files
  <1>2. job.m \in Nat /\ job.q \in Nat /\ topic \in Keys
    BY <1>1 DEF TypeOK, Jobs, Answers
  <1>3. CASE Fate({job.m}, "failed") /\ job' = None /\ UNCHANGED <<pane, keep>> /\ Still
    <2>1. Kept /\ OpensNothing /\ DOMAIN msg' = DOMAIN msg
      BY <1>1, <1>3, TextEnds DEF Texts
    <2>2. TypeOK'
      BY <1>1, <1>3, <2>1, CountsStay DEF TypeOK, Kept
    <2> QED
      BY <1>1, <1>3, <2>1, <2>2, QuietKeeps
  <1>4. CASE job' = Answer(job.m, job.q, "pencil") /\ UNCHANGED <<pane, keep, msg>> /\ Still
    <2>1. job' \in Answers /\ job'.do = "type" /\ job'.m = job.m
      BY <1>2, <1>4, AnswerIs
    <2>2. Kept /\ OpensNothing /\ DOMAIN msg' = DOMAIN msg
      BY <1>4, SameIsQuiet
    <2>3. TypeOK'
      BY <1>1, <1>4, <2>1, CountsStay DEF TypeOK, Jobs
    <2>4. Carries(msg, job.m) /\ ~Opens(msg[job.m].kind) /\ JobHas(job.m)
      BY <1>1, TextJobIs DEF IInv, Texts
    <2>5. JobCarries' /\ Unheld'
      BY <1>4, <2>1, <2>4 DEF JobCarries, Unheld, Texts
    <2>6. \A n : JobHas(n)' => JobHas(n)
      BY <2>1, <2>4 DEF JobHas
    <2>7. Apart'
      BY <1>1, <2>6, ApartStays DEF IInv
    <2>8. Has("pencil") /\ Has("pencil")' /\ ~Settled'
      BY <1>1 DEF IInv, Looked, Settled, Has
    <2>9. Looked'
      BY <2>8 DEF Looked
    <2> QED
      BY <1>1, <1>4, <2>2, <2>3, <2>5, <2>7, <2>9, QuietButJob DEF IInv
  <1>5. CASE /\ Here /\ job' = None /\ TextLands("pencil", "plain", job.q) /\ Fate({job.m}, "sent")
             /\ keep' = [keep EXCEPT ![topic] = Marked(@, job.q)]
    BY <1>1, <1>2, <1>5, TextJobLands
  <1> QED
    BY <1>3, <1>4, <1>5 DEF TypeAfterPress

LEMMA PressEnterKeeps ==
  ASSUME TypeOK, IInv, PressEnter
  PROVE  TypeOK' /\ IInv'
  <1>1. /\ job # None /\ job.do = "enter" /\ job' = None /\ Succeeds
        /\ UNCHANGED <<opt, known, topic, news, keep, entry, check, album, fetched, msg>>
        /\ IF Here THEN KeyLands("submit", "enter", 0) ELSE UNCHANGED pane /\ Still
    BY DEF PressEnter, outside, files
  <1>2. Kept /\ OpensNothing /\ DOMAIN msg' = DOMAIN msg
    BY <1>1, SameIsQuiet
  <1>3. CASE ~Here
    <2>1. TypeOK'
      BY <1>1, <1>3, CountsStay DEF TypeOK
    <2> QED
      BY <1>1, <1>2, <1>3, <2>1, QuietKeeps
  <1>4. CASE Here
    <2>1. /\ Lands("submit", 0) /\ effect'.what # "answer"
          /\ pane'.view = "picker" => pane' = pane
          /\ effect'.what = "option" => Dialog
      BY <1>1, <1>4, KeyLandsMeans DEF IInv, Lands
    <2>2. TypeOK'
      BY <1>1, <2>1, CountsStay DEF TypeOK, Lands
    <2>3. DialogIsBlocked' /\ PickerIsIdle' /\ Home' /\ NewestAsks'
      BY <1>1, <1>2, <1>4, <2>1, LandedKeeps
    <2>4. Carried' /\ Apart' /\ Looked'
      BY <1>1, <1>2, CarriedStays, ApartStays, LookStays DEF IInv, JobHas
    <2>5. JobCarries' /\ Unheld'
      BY <1>1, JobEnds
    <2>6. PickerKnown'
      BY <1>1, <1>2, <1>4, <2>1, PickerStays DEF IInv, KnownIdle
    <2>7. Settled => ~Dialog
      BY <1>1 DEF IInv, Looked
    <2>8. NothingUnmeant'
      BY <1>1, <2>1, <2>7, LandedIsMeant
    <2> QED
      BY <2>2, <2>3, <2>4, <2>5, <2>6, <2>8 DEF IInv
  <1> QED
    BY <1>3, <1>4

---------------------------------------------------------------------------
(* The agent and its user, the registry and the topic.                     *)

LEMMA AgentKeeps ==
  ASSUME TypeOK, IInv, NEW next, Agent(next), Here, next # Gone => next \in Pane,
         spent' \in [questions: Nat, presses: Nat, failures: Nat],
         next # Gone =>
           /\ next.key = pane.key \/ ~OneKey
           /\ next.status = "blocked" <=> next.view \in {"menu", "entry", "focusing", "open"}
           /\ next.view = "picker" => next.status = "idle" /\ opt.agent # "claude" /\ ~OneKey
  PROVE  TypeOK' /\ IInv'
  <1>1. /\ pane' = next /\ Still /\ (job = None \/ Has("races"))
        /\ UNCHANGED <<opt, known, topic, news, keep, entry, check, album, fetched, job, msg>>
    BY DEF Agent, outside, files
  <1>2. Kept /\ OpensNothing /\ DOMAIN msg' = DOMAIN msg
    BY <1>1, SameIsQuiet
  <1>3. OneKey' = OneKey /\ InTime' = InTime /\ Has("pencil")' = Has("pencil") /\ Settled' = Settled
    BY <1>1 DEF OneKey, InTime, Has, Undriven, Settled
  <1>4. TypeOK'
    BY <1>1 DEF TypeOK
  <1>5. DialogIsBlocked' /\ PickerIsIdle'
    BY <1>1 DEF DialogIsBlocked, PickerIsIdle, Here, Dialog
  <1>6. Carried' /\ JobCarries' /\ Apart'
    BY <1>1, <1>2, CarriedStays, JobStays, ApartStays DEF IInv, JobHas
  <1>7. job = None \/ ~Settled
    BY <1>1 DEF Settled
  <1>8. Looked'
    BY <1>1, <1>7, LookStays DEF IInv
  <1>9. Home'
    <2>1. CASE OneKey
      BY <1>1, <2>1, HomeStays DEF IInv, Here
    <2>2. CASE ~OneKey
      BY <1>3, <2>2 DEF Home
    <2> QED
      BY <2>1, <2>2
  <1>10. NewestAsks'
    BY <1>1, <1>3 DEF IInv, NewestAsks
  <1>11. PickerKnown'
    BY <1>1, <1>3 DEF PickerKnown, Here
  <1>12. Unheld'
    <2>1. job # None /\ job.do = "undriven" => ~InTime
      BY <1>1 DEF IInv, JobCarries, InTime
    <2> QED
      BY <1>1, <1>3, <2>1 DEF Unheld
  <1> QED
    BY <1>1, <1>4, <1>5, <1>6, <1>8, <1>9, <1>10, <1>11, <1>12, StillMeansNothing DEF IInv

LEMMA PaneIs ==
  ASSUME TypeOK, IInv, Here
  PROVE  /\ pane \in Pane /\ pane.view \in Views /\ pane.status \in Statuses /\ pane # Gone
         /\ pane.status = "blocked" <=> pane.view \in {"menu", "entry", "focusing", "open"}
         /\ pane.view = "picker" => pane.status = "idle" /\ opt.agent # "claude"
  BY DEF TypeOK, Here, IInv, DialogIsBlocked, Dialog, PickerIsIdle, Pane

LEMMA AsksKeeps ==
  ASSUME TypeOK, IInv, Asks
  PROVE  TypeOK' /\ IInv'
  <1>1. PICK view \in opt.dialogs :
          Agent([pane EXCEPT !.status = "blocked", !.view = view, !.question = spent.questions + 1])
    BY DEF Asks
  <1> DEFINE next == [pane EXCEPT !.status = "blocked", !.view = view, !.question = spent.questions + 1]
  <1>2. view \in {"menu", "entry"}
    BY PromptsAssumption DEF TypeOK
  <1>3. Here /\ spent' \in [questions: Nat, presses: Nat, failures: Nat] /\ spent.questions + 1 \in Nat
    BY DEF Asks, TypeOK
  <1>4. next \in Pane /\ next.key = pane.key /\ next.status = "blocked" /\ next.view = view
    BY <1>2, <1>3, PaneIs DEF Pane, Statuses, Views
  <1>5. Agent(next)
    BY <1>1
  <1> HIDE DEF next
  <1> QED
    BY <1>2, <1>3, <1>4, <1>5, AgentKeeps

LEMMA DeskKeeps ==
  ASSUME TypeOK, IInv, Ends \/ Focuses \/ Desk \/ Exits \/ Rekeys
  PROVE  TypeOK' /\ IInv'
  <1>1. Here /\ Succeeds
    BY DEF Ends, Focuses, Desk, Exits, Rekeys
  <1>2. spent' \in [questions: Nat, presses: Nat, failures: Nat]
    BY <1>1, CountsStay
  <1> DEFINE ended == [pane EXCEPT !.status = "idle"]
             focused == [pane EXCEPT !.view = "open"]
             Rekeyed(k) == [pane EXCEPT !.key = k]
  <1>3. CASE Ends
    <2>1. ended \in Pane /\ ended.key = pane.key /\ ended.status = "idle" /\ ended.view = "input"
      BY <1>1, <1>3, PaneIs DEF Ends, Pane, Statuses
    <2>2. Agent(ended)
      BY <1>3 DEF Ends
    <2> HIDE DEF ended
    <2> QED
      BY <1>1, <1>2, <2>1, <2>2, AgentKeeps
  <1>4. CASE Focuses
    <2>1. focused \in Pane /\ focused.key = pane.key /\ focused.status = pane.status /\ focused.view = "open"
      BY <1>1, <1>4, PaneIs DEF Focuses, Pane, Views
    <2>2. Agent(focused) /\ pane.status = "blocked"
      BY <1>1, <1>4, PaneIs DEF Focuses
    <2> HIDE DEF focused
    <2> QED
      BY <1>1, <1>2, <2>1, <2>2, AgentKeeps
  <1>5. CASE Desk
    <2>1. Agent(Works) \/ (Agent(Rest) /\ pane.status # "blocked")
      <3>1. CASE Dialog
        BY <1>5, <3>1, Zenon DEF Desk
      <3>2. CASE ~Dialog
        <4>1. pane.status # "blocked"
          BY <1>1, <3>2, PaneIs DEF Dialog
        <4>2. Agent(Rest) \/ Agent(Works)
          BY <1>5, <3>2, Zenon DEF Desk
        <4> QED
          BY <4>1, <4>2
      <3> QED
        BY <3>1, <3>2
    <2>2. /\ Works \in Pane /\ Works.key = pane.key /\ Works.status # "blocked" /\ Works.view = "input"
          /\ Rest \in Pane /\ Rest.key = pane.key /\ Rest.status = pane.status /\ Rest.view = "input"
      BY <1>1, RestIs
    <2>3. CASE Agent(Works)
      BY <1>1, <1>2, <2>2, <2>3, AgentKeeps
    <2>4. CASE Agent(Rest) /\ pane.status # "blocked"
      BY <1>1, <1>2, <2>2, <2>4, AgentKeeps
    <2> QED
      BY <2>1, <2>3, <2>4
  <1>6. CASE Exits
    <2>1. Agent(Gone)
      BY <1>6 DEF Exits
    <2> QED
      BY <1>1, <1>2, <2>1, AgentKeeps
  <1>7. CASE Rekeys
    <2>1. PICK k \in Keys : Agent(Rekeyed(k))
      BY <1>7 DEF Rekeys
    <2>2. /\ Rekeyed(k) \in Pane /\ Rekeyed(k).status = pane.status /\ Rekeyed(k).view = pane.view
          /\ ~OneKey
      BY <1>1, <1>7, PaneIs DEF Rekeys, Pane, OneKey
    <2> HIDE DEF Rekeyed
    <2> QED
      BY <1>1, <1>2, <2>1, <2>2, PaneIs, AgentKeeps
  <1> QED
    BY <1>3, <1>4, <1>5, <1>6, <1>7

LEMMA NoticeKeeps ==
  ASSUME TypeOK, IInv, Notice
  PROVE  TypeOK' /\ IInv'
  <1>1. /\ Still /\ known # Gone
        /\ UNCHANGED <<opt, pane, topic, keep, entry, check, album, fetched, job, msg, spent>>
        /\ known' = (IF Here THEN [key |-> pane.key, status |-> pane.status] ELSE Gone)
        /\ news' = IF Here THEN news ELSE Append(news, [kind |-> "gone", from |-> known.key, to |-> known.key])
    BY DEF Notice, files
  <1>2. known \in Shown
    BY <1>1 DEF TypeOK
  <1> DEFINE seen == [key |-> pane.key, status |-> pane.status]
             event == [kind |-> "gone", from |-> known.key, to |-> known.key]
  <1>3. Here => seen \in Shown /\ seen.key = pane.key /\ seen.status = pane.status /\ seen # Gone
    BY PaneIs, PromptsAssumption DEF Shown, Pane
  <1>4. event \in News /\ event.kind = "gone"
    BY <1>2 DEF News, Shown
  <1>5. known' = (IF Here THEN seen ELSE Gone) /\ news' = IF Here THEN news ELSE Append(news, event)
    BY <1>1
  <1> HIDE DEF seen, event
  <1>6. news' \in Seq(News) /\ known' \in Shown \cup {Gone}
    BY <1>3, <1>4, <1>5 DEF TypeOK
  <1>7. TypeOK'
    BY <1>1, <1>6 DEF TypeOK
  <1>8. Kept /\ OpensNothing /\ DOMAIN msg' = DOMAIN msg
    BY <1>1, SameIsQuiet
  <1>9. OneKey' = OneKey /\ InTime' = InTime
    BY <1>1 DEF OneKey, InTime, Has, Undriven
  <1>10. DialogIsBlocked' /\ PickerIsIdle' /\ Looked'
    BY <1>1, PaneStays, LookStays DEF IInv
  <1>11. Carried' /\ JobCarries' /\ Apart'
    BY <1>1, <1>8, CarriedStays, JobStays, ApartStays DEF IInv, JobHas
  <1>12. Home'
    <2>1. CASE OneKey
      <3>1. Home
        BY DEF IInv
      <3>2. \A i \in DOMAIN news' : news'[i].kind = "gone"
        <4>1. CASE Here
          BY <1>5, <2>1, <3>1, <4>1 DEF Home
        <4>2. CASE ~Here
          <5>1. \A i \in DOMAIN news : news[i].kind = "gone"
            BY <2>1, <3>1 DEF Home
          <5>2. news' = Append(news, event) /\ news \in Seq(News)
            BY <1>5, <4>2 DEF TypeOK
          <5> QED
            BY <1>4, <5>1, <5>2
        <4> QED
          BY <4>1, <4>2
      <3>3. news' # <<>> \/ known' = Gone => ~Here
        BY <1>3, <1>5, <2>1, <3>1 DEF Home
      <3>4. /\ topic = First
            /\ Here => pane.key = First
            /\ \A k \in Keys \ {First} : keep[k].pending = None /\ keep[k].picker = None
        BY <2>1, <3>1 DEF Home
      <3>5. known' # Gone => known'.key = First
        BY <1>3, <1>5, <3>4
      <3> QED
        BY <1>1, <3>2, <3>3, <3>4, <3>5 DEF Home, Here
    <2>2. CASE ~OneKey
      BY <1>9, <2>2 DEF Home
    <2> QED
      BY <2>1, <2>2
  <1>13. NewestAsks'
    BY <1>1, <1>8, NewestStays, PromptsAssumption DEF IInv, Here
  <1>14. Here /\ pane.status = "idle" => KnownIdle'
    BY <1>2, <1>3, <1>5 DEF KnownIdle, Here
  <1>15. PickerKnown'
    BY <1>1, <1>9, <1>14, PaneIs DEF IInv, PickerKnown, Known, IdleHold, Here
  <1>16. Unheld'
    BY <1>1, <1>9, <1>14 DEF IInv, Unheld, Here
  <1> QED
    BY <1>1, <1>7, <1>10, <1>11, <1>12, <1>13, <1>15, <1>16, StillMeansNothing DEF IInv

LEMMA MapMovesKeeps ==
  ASSUME TypeOK, IInv, MapMoves
  PROVE  TypeOK' /\ IInv'
  <1> DEFINE event == [kind |-> "moved", from |-> topic, to |-> known.key]
  <1>1. /\ Still /\ known # Gone /\ known.key # topic /\ topic' = known.key /\ news' = Append(news, event)
        /\ UNCHANGED <<opt, pane, known, keep, entry, check, album, fetched, job, msg, spent>>
    BY DEF MapMoves, files
  <1>2. known.key \in Keys /\ event \in News
    BY <1>1 DEF TypeOK, Shown, News
  <1> HIDE DEF event
  <1>3. TypeOK'
    BY <1>1, <1>2 DEF TypeOK
  <1>4. Kept /\ OpensNothing /\ DOMAIN msg' = DOMAIN msg
    BY <1>1, SameIsQuiet
  <1>5. DialogIsBlocked' /\ PickerIsIdle' /\ Looked'
    BY <1>1, PaneStays, LookStays DEF IInv
  <1>6. Carried' /\ JobCarries' /\ Apart'
    BY <1>1, <1>4, CarriedStays, JobStays, ApartStays DEF IInv, JobHas
  <1>7. ~OneKey
    BY <1>1 DEF IInv, Home
  <1>8. ~OneKey'
    BY <1>1, <1>7 DEF OneKey, Has
  <1>9. Home' /\ NewestAsks' /\ PickerKnown' /\ Unheld'
    BY <1>8 DEF Home, NewestAsks, PickerKnown, Unheld
  <1> QED
    BY <1>1, <1>3, <1>5, <1>6, <1>9, StillMeansNothing DEF IInv

---------------------------------------------------------------------------
(* The buttons, the follow-ups and the news.                               *)

LEMMA PressTextKeeps ==
  ASSUME TypeOK, IInv, NEW k \in Keys, PressText(k)
  PROVE  TypeOK' /\ IInv'
  <1> DEFINE q == keep[k].kb.q
  <1>1. /\ job = None /\ Has("pencil") /\ Here /\ keep[k].kb # None
        /\ spent' = [spent EXCEPT !.presses = @ + 1]
        /\ KeyLands("press", "digit", q)
        /\ keep' = [keep EXCEPT ![k] = [@ EXCEPT !.typing = q]]
        /\ UNCHANGED <<opt, known, topic, news, entry, check, album, fetched, job, msg>>
    BY DEF PressText, outside, files
  <1>2. q \in Nat
    BY <1>1 DEF TypeOK, Record
  <1> HIDE DEF q
  <1>3. \A l \in Keys : /\ keep'[l] \in Record /\ keep'[l].pending = keep[l].pending
                        /\ keep'[l].picker = keep[l].picker /\ keep'[l].closing = keep[l].closing
    BY <1>1, <1>2 DEF TypeOK, Record
  <1>4. /\ Lands("press", q) /\ effect'.what # "answer"
        /\ pane'.view = "picker" => pane' = pane
    BY <1>1, KeyLandsMeans DEF IInv
  <1>5. TypeOK'
    <2>1. keep' \in [Keys -> Record]
      BY <1>1, <1>3 DEF TypeOK
    <2>2. spent' \in [questions: Nat, presses: Nat, failures: Nat]
      BY <1>1 DEF TypeOK
    <2>3. pane' \in Pane
      BY <1>4 DEF Lands
    <2> QED
      BY <1>1, <2>1, <2>2, <2>3 DEF TypeOK
  <1>6. Kept /\ OpensNothing /\ DOMAIN msg' = DOMAIN msg
    BY <1>1, SameIsQuiet
  <1>7. DialogIsBlocked' /\ PickerIsIdle' /\ Home' /\ NewestAsks'
    BY <1>1, <1>3, <1>4, <1>6, LandedKeeps
  <1>8. Carried' /\ Apart'
    BY <1>1, <1>3, <1>6, CarriedStays, ApartStays DEF IInv, JobHas
  <1>9. JobCarries' /\ Unheld'
    BY <1>1, JobEnds
  <1>10. Looked'
    BY <1>1 DEF Looked, Has
  <1>11. PickerKnown'
    BY <1>1, <1>3, <1>4, <1>6, PickerStays, PromptsAssumption DEF IInv, KnownIdle
  <1>12. ~Settled
    BY <1>1 DEF Settled
  <1>13. NothingUnmeant'
    BY <1>1, <1>4, <1>12, LandedIsMeant
  <1> QED
    BY <1>5, <1>7, <1>8, <1>9, <1>10, <1>11, <1>13 DEF IInv

LEMMA PressCloseKeeps ==
  ASSUME TypeOK, IInv, NEW m \in 1..MaxMessages, PressClose(m)
  PROVE  TypeOK' /\ IInv'
  <1>1. /\ job = None /\ m \in DOMAIN msg /\ keep[topic].closing = m
        /\ keep' = [keep EXCEPT ![topic] = [@ EXCEPT !.closing = None]]
        /\ UNCHANGED <<opt, known, topic, news, entry, check, album, fetched, job, msg>>
        /\ spent' = [spent EXCEPT !.presses = @ + 1]
        /\ \/ Here /\ pane' = Gone /\ Effect("close", "gone", m)
           \/ UNCHANGED pane /\ Still
    BY DEF PressClose, Latest, outside, files
  <1>2. topic \in Keys /\ First \in Keys /\ m \in Nat /\ m # None
    BY <1>1, PromptsAssumption DEF TypeOK
  <1>3. /\ keep' \in [Keys -> Record]
        /\ \A l \in Keys : /\ keep'[l].pending = keep[l].pending /\ keep'[l].typing = keep[l].typing
                           /\ keep'[l].picker = keep[l].picker /\ keep'[l].closing \in {None, keep[l].closing}
    BY <1>1, <1>2 DEF TypeOK, Record
  <1>4. TypeOK'
    <2>1. spent' \in [questions: Nat, presses: Nat, failures: Nat]
      BY <1>1 DEF TypeOK
    <2>2. pane' \in Pane \cup {Gone}
      BY <1>1 DEF TypeOK
    <2> QED
      BY <1>1, <1>3, <2>1, <2>2 DEF TypeOK
  <1>5. Kept /\ OpensNothing /\ DOMAIN msg' = DOMAIN msg
    BY <1>1, SameIsQuiet
  <1>6. CASE UNCHANGED pane /\ Still
    BY <1>1, <1>3, <1>4, <1>5, <1>6, QuietKeeps
  <1>7. CASE Here /\ pane' = Gone /\ Effect("close", "gone", m)
    <2>1. ~Here'
      BY <1>7 DEF Here
    <2>2. DialogIsBlocked' /\ PickerIsIdle' /\ NewestAsks' /\ PickerKnown'
      BY <2>1 DEF DialogIsBlocked, PickerIsIdle, NewestAsks, PickerKnown
    <2>3. Carried' /\ Apart'
      BY <1>1, <1>3, <1>5, CarriedStays, ApartStays DEF IInv, JobHas
    <2>4. JobCarries' /\ Unheld' /\ Looked'
      BY <1>1, <1>3, JobEnds, LookStays DEF IInv
    <2>5. Home'
      BY <1>1, <1>3, <2>1, HomeStays DEF IInv
    <2>6. OneKey => topic = First
      BY DEF IInv, Home
    <2>7. OneKey => \A n \in DOMAIN msg : msg[n].kind = "close" => n <= m
      BY <1>1, <1>2, <1>7, <2>6 DEF IInv, NewestAsks
    <2>8. OneKey' = OneKey
      BY <1>1 DEF OneKey, Has
    <2>9. effect'.what = "gone" /\ effect'.meant = m
      BY <1>7 DEF Effect
    <2>10. NothingUnmeant'
      BY <1>1, <2>7, <2>8, <2>9 DEF NothingUnmeant
    <2> QED
      BY <1>4, <2>2, <2>3, <2>4, <2>5, <2>10 DEF IInv
  <1> QED
    BY <1>1, <1>6, <1>7

LEMMA DismissKeeps ==
  ASSUME TypeOK, IInv, Dismiss
  PROVE  TypeOK' /\ IInv'
  <1>1. /\ job # None /\ job.do = "esc" /\ job' = None /\ (Succeeds \/ Fails)
        /\ UNCHANGED <<opt, known, topic, news, keep, entry, check, album, fetched>>
        /\ \/ Here /\ KeyLands("dismiss", "esc", 0)
           \/ UNCHANGED pane /\ Still
        /\ EndsForward(job.m, "sent") \/ EndsForward(job.m, "left open")
    BY DEF Dismiss, outside, files
  <1>2. opt.agent = "claude" /\ (job.m # None => Carries(msg, job.m))
    BY <1>1, WorldIs DEF IInv, JobCarries
  <1>3. Kept /\ DOMAIN msg' = DOMAIN msg
    <2>1. CASE UNCHANGED msg
      BY <2>1, SameIsQuiet
    <2>2. ASSUME NEW f \in {"sent", "left open"}, Fate({job.m}, f), job.m # None
          PROVE  Kept /\ DOMAIN msg' = DOMAIN msg
      <3>1. f \in Fates /\ f # "held" /\ msg \in Seq(Message)
        BY DEF Fates, TypeOK
      <3>2. \A n \in {job.m} : n \in DOMAIN msg => msg[n].fate # "held"
        BY <1>2, <2>2 DEF Carries
      <3> QED
        BY <2>2, <3>1, <3>2, FateKeeps, FateMeans
    <2> QED
      BY <1>1, <2>1, <2>2 DEF EndsForward
  <1>4. JobCarries' /\ Unheld' /\ Looked'
    BY <1>1, JobEnds, LookStays DEF IInv
  <1>5. Carried' /\ Apart'
    BY <1>1, <1>3, CarriedStays, ApartStays DEF IInv, JobHas
  <1>6. CASE UNCHANGED pane /\ Still
    <2>1. TypeOK'
      BY <1>1, <1>3, <1>6, CountsStay DEF TypeOK, Kept
    <2>2. DialogIsBlocked' /\ PickerIsIdle' /\ Home' /\ NewestAsks'
      BY <1>1, <1>3, <1>6, PaneStays, HomeStays, NewestStays DEF IInv, Here
    <2>3. PickerKnown'
      BY <1>1, <1>2, <2>2 DEF PickerKnown, PickerIsIdle
    <2> QED
      BY <1>4, <1>5, <1>6, <2>1, <2>2, <2>3, StillMeansNothing DEF IInv
  <1>7. CASE Here /\ KeyLands("dismiss", "esc", 0)
    <2>1. /\ Lands("dismiss", 0) /\ effect'.what # "answer" /\ effect'.what # "option"
      BY <1>7, KeyLandsMeans DEF IInv
    <2>2. TypeOK'
      BY <1>1, <1>3, <2>1, CountsStay DEF TypeOK, Kept, Lands
    <2>3. DialogIsBlocked' /\ PickerIsIdle' /\ Home' /\ NewestAsks'
      BY <1>1, <1>3, <1>7, <2>1, LandedKeeps
    <2>4. PickerKnown'
      BY <1>1, <1>2, <2>3 DEF PickerKnown, PickerIsIdle
    <2>5. NothingUnmeant'
      BY <1>1, <2>1, LandedIsMeant
    <2> QED
      BY <1>4, <1>5, <2>2, <2>3, <2>4, <2>5 DEF IInv
  <1> QED
    BY <1>1, <1>6, <1>7

(* A picker that is up and not held back is told of, or not posted yet.    *)
LEMMA PickerTold ==
  ASSUME TypeOK, IInv, Kept, OpensNothing, OneKey, InTime, Here, pane.view = "picker", ~IdleHold
  PROVE  KnownIdle /\ \E m \in DOMAIN msg' : IsLast(msg', m) /\ (WarnedSince(msg', m) \/ msg'[m].fate # "sent")
  <1>1. PICK m \in DOMAIN msg : IsLast(msg, m) /\ Known(m)
    BY DEF IInv, PickerKnown
  <1>2. WarnedSince(msg, m) \/ msg[m].fate # "sent"
    BY <1>1 DEF Known
  <1>3. IsLast(msg', m) /\ (WarnedSince(msg', m) \/ msg'[m].fate # "sent")
    BY <1>1, <1>2, LastStays
  <1> QED
    BY <1>3 DEF IInv, PickerKnown, IsLast

(* A text of the bridge's own lands where a picker, if there is one, is    *)
(* told of.                                                                *)
LEMMA PromptIsMeant ==
  ASSUME TypeOK, IInv, Here, UNCHANGED opt, msg' \in Seq(Message), NEW kind, TextLands("prompt", kind, 0),
         Settled => ~Dialog,
         OneKey /\ InTime /\ pane.view = "picker" =>
           \E m \in DOMAIN msg' : IsLast(msg', m) /\ (WarnedSince(msg', m) \/ msg'[m].fate # "sent")
  PROVE  NothingUnmeant'
  <1>1. Lands("prompt", 0)
    BY TextLandsMeans DEF IInv
  <1>2. /\ effect'.by = "prompt" /\ effect'.what # "gone"
        /\ effect'.what = "option" => Dialog
        /\ effect'.what = "choice" => pane.view = "picker"
    BY <1>1 DEF Lands
  <1>3. OneKey' = OneKey /\ InTime' = InTime /\ Settled' = Settled
    BY DEF OneKey, InTime, Settled, Has, Undriven
  <1>4. ASSUME OneKey, InTime, effect'.what = "choice", msg'[LastOpened'].fate = "sent"
        PROVE  Warned'
    <2>1. PICK m \in DOMAIN msg' : IsLast(msg', m) /\ (WarnedSince(msg', m) \/ msg'[m].fate # "sent")
      BY <1>2, <1>4
    <2>2. LastOpened' = m /\ (Warned' <=> WarnedSince(msg', m))
      BY <2>1, WarnedNext
    <2> QED
      BY <1>4, <2>1, <2>2
  <1> QED
    BY <1>2, <1>3, <1>4 DEF NothingUnmeant

LEMMA TypeUndrivenKeeps ==
  ASSUME TypeOK, IInv, TypeUndriven
  PROVE  TypeOK' /\ IInv'
  <1>1. /\ job # None /\ job.do = "undriven" /\ job' = None /\ Succeeds
        /\ UNCHANGED <<opt, known, topic, news, keep, entry, album, fetched>>
    BY DEF TypeUndriven, outside, files
  <1>2. /\ job.m \in Nat /\ Carries(msg, job.m) /\ Undriven /\ job.kind \in Kinds \ {"part", "models"}
        /\ IF job.kind = "file" THEN IsFile(msg, job.m) ELSE msg[job.m].kind = job.kind
    BY <1>1 DEF IInv, JobCarries, TypeOK, Jobs, Answers
  <1>3. JobCarries' /\ Unheld' /\ Looked'
    BY <1>1, JobEnds, LookStays DEF IInv
  <1>4. Apart'
    BY <1>1, ApartStays DEF IInv, JobHas
  <1>5. Kept /\ OpensNothing /\ DOMAIN msg' = DOMAIN msg
    <2>1. CASE UNCHANGED msg
      BY <2>1, SameIsQuiet
    <2>2. ASSUME NEW f \in {"sent", "failed"}, Fate({job.m}, f), f = "sent" => job.kind # "usage"
          PROVE  Kept /\ OpensNothing /\ DOMAIN msg' = DOMAIN msg
      <3>1. f \in Fates /\ f # "held"
        BY DEF Fates
      <3>2. \A n \in {job.m} : Carries(msg, n) /\ (f = "sent" => ~Opens(msg[n].kind))
        BY <1>2, <2>2 DEF Opens, IsFile
      <3> QED
        BY <2>2, <3>1, <3>2, FateIsQuiet
    <2>3. UNCHANGED msg \/ Fate({job.m}, "failed") \/ (Fate({job.m}, "sent") /\ job.kind # "usage")
      BY DEF TypeUndriven
    <2> QED
      BY <2>1, <2>2, <2>3
  <1>6. CASE ~Here
    <2>1. UNCHANGED <<pane, check>> /\ Still
      BY <1>6 DEF TypeUndriven
    <2>2. TypeOK'
      BY <1>1, <1>5, <2>1, CountsStay DEF TypeOK, Kept
    <2> QED
      BY <1>1, <1>5, <2>1, <2>2, QuietKeeps
  <1>7. CASE Here
    <2>1. /\ check' = check \/ (check' = Checked(job.m) /\ job.kind # "file")
          /\ job.kind = "usage" => UNCHANGED msg
          /\ \/ TextLands("prompt", job.kind, 0)
             \/ pane.view = "input" /\ pane' = [pane EXCEPT !.box = Append(@, job.m)] /\ Still
      BY <1>7 DEF TypeUndriven
    <2>2. check' \in [m: Nat, key: Keys] \cup {None}
      BY <1>2, <2>1 DEF TypeOK, Checked
    <2>3. Carried'
      <3>1. CASE check' = check
        BY <1>1, <1>5, <3>1, CarriedStays DEF IInv
      <3>2. CASE check' = Checked(job.m) /\ job.kind # "file"
        <4>1. check'.m = job.m /\ Carries(msg', job.m) /\ ~IsFile(msg', job.m)
          BY <1>2, <1>5, <3>2 DEF Checked, Kept, Carries, IsFile
        <4>2. \A n : Carries(msg, n) => Carries(msg', n) /\ msg'[n].kind = msg[n].kind
          BY <1>5 DEF Carries, Kept
        <4> QED
          BY <1>1, <4>1, <4>2 DEF IInv, Carried, IsFile
      <3> QED
        BY <2>1, <3>1, <3>2
    <2>4. CASE pane.view = "input" /\ pane' = [pane EXCEPT !.box = Append(@, job.m)] /\ Still
      <3>1. pane.box \in Seq(Nat)
        BY <1>7, PaneIs DEF Pane
      <3>2. Append(pane.box, job.m) \in Seq(Nat)
        BY <1>2, <3>1
      <3>3. pane' \in Pane /\ pane'.key = pane.key /\ pane'.view = "input" /\ pane'.status = pane.status
        BY <1>7, <2>4, <3>2, PaneIs DEF Pane
      <3>4. TypeOK'
        BY <1>1, <1>5, <2>2, <3>3, CountsStay DEF TypeOK, Kept
      <3>5. DialogIsBlocked' /\ PickerIsIdle'
        BY <1>7, <2>4, <3>3, PaneIs DEF DialogIsBlocked, PickerIsIdle, Dialog, Here
      <3>6. Home' /\ NewestAsks'
        BY <1>1, <1>5, <1>7, <3>3, HomeStays, NewestStays DEF IInv, Here
      <3>7. PickerKnown'
        BY <3>3, PickerGone
      <3> QED
        BY <1>3, <1>4, <2>3, <2>4, <3>4, <3>5, <3>6, <3>7, StillMeansNothing DEF IInv
    <2>5. CASE TextLands("prompt", job.kind, 0)
      <3>1. /\ Lands("prompt", 0)
            /\ pane'.view = "picker" => pane.view = "input" /\ pane.status = "idle" /\ job.kind \in {"usage", "models"}
        BY <1>7, <2>5, TextLandsMeans DEF IInv
      <3>2. TypeOK'
        BY <1>1, <1>5, <2>2, <3>1, CountsStay DEF TypeOK, Kept, Lands
      <3>3. DialogIsBlocked' /\ PickerIsIdle' /\ Home' /\ NewestAsks'
        BY <1>1, <1>5, <1>7, <3>1, LandedKeeps
      <3>4. OneKey' = OneKey /\ InTime' = InTime
        BY <1>1 DEF OneKey, InTime, Has, Undriven
      <3>5. PickerKnown'
        <4> SUFFICES ASSUME OneKey, InTime, pane'.view = "picker"
                     PROVE  KnownIdle' /\ \E m \in DOMAIN msg' : IsLast(msg', m) /\ Known(m)'
          BY <3>4 DEF PickerKnown
        <4>1. job.kind = "usage" /\ pane.status = "idle" /\ UNCHANGED msg
          BY <1>2, <2>1, <3>1
        <4>2. Unheld /\ Opens(job.kind)
          BY <4>1 DEF IInv, Opens
        <4>3. KnownIdle /\ IsLast(msg, job.m) /\ msg[job.m].fate # "sent"
          BY <1>1, <1>7, <4>1, <4>2 DEF Unheld
        <4>4. KnownIdle'
          BY <1>1, <4>3 DEF KnownIdle
        <4>5. PICK l \in DOMAIN msg : IsLast(msg, l) /\ msg[l].fate # "sent"
          BY <4>3 DEF IsLast
        <4>6. l \in DOMAIN msg' /\ IsLast(msg', l) /\ Known(l)'
          BY <4>1, <4>5 DEF Known
        <4> QED
          BY <4>4, <4>6
      <3>6. Settled => ~Dialog
        BY <1>1, <1>7 DEF IInv, Looked
      <3>7. OneKey /\ InTime => ~IdleHold
        BY <1>1 DEF IInv, Unheld, IdleHold
      <3>8. msg' \in Seq(Message)
        BY <1>5 DEF Kept
      <3>9. NothingUnmeant'
        BY <1>1, <1>5, <1>7, <2>5, <3>6, <3>7, <3>8, PickerTold, PromptIsMeant
      <3> QED
        BY <1>3, <1>4, <2>3, <3>2, <3>3, <3>5, <3>9 DEF IInv
    <2> QED
      BY <2>1, <2>4, <2>5
  <1> QED
    BY <1>6, <1>7


---------------------------------------------------------------------------
(* The timers of commands, and the news.                                   *)

(* An escape is left.                                                      *)
LEMMA EscIsQuiet ==
  ASSUME TypeOK, IInv, Kept, UNCHANGED <<opt, fetched, album, entry>>, NEW m,
         Dismisses, m # None => Carries(msg, m), job' = [do |-> "esc", m |-> m],
         \A k \in Keys : keep'[k].typing \in {None, keep[k].typing}
  PROVE  JobCarries' /\ Apart' /\ Looked' /\ Unheld'
  <1>1. job'.do = "esc" /\ job'.m = m
    OBVIOUS
  <1>2. Carries(msg, m) => Carries(msg', m)
    BY DEF Carries, Kept
  <1>3. JobCarries'
    BY <1>1, <1>2 DEF JobCarries, Texts, Dismisses
  <1>4. \A n : ~JobHas(n)'
    BY <1>1 DEF JobHas, Texts
  <1>5. Apart'
    BY <1>4, ApartStays DEF IInv
  <1>6. Has("pencil")' = Has("pencil") /\ Settled' = Settled
    BY DEF Has, Settled
  <1>7. Looked'
    BY <1>1, <1>6 DEF IInv, Looked
  <1>8. Unheld'
    BY <1>1 DEF Unheld
  <1> QED
    BY <1>3, <1>5, <1>7, <1>8

LEMMA FireForgottenKeeps ==
  ASSUME TypeOK, IInv, NEW k \in Keys, Fire(k), keep[k].pending # None, FireForgotten(k)
  PROVE  TypeOK' /\ IInv'
  <1> DEFINE p == keep[k].pending
  <1>1. /\ Still /\ job = None /\ Succeeds
        /\ UNCHANGED <<opt, known, topic, news, pane, entry, check, album, fetched>>
        /\ Fate({p}, "skipped")
        /\ keep' = [keep EXCEPT ![k] = [@ EXCEPT !.pending = None]]
        /\ job' = None \/ (job' = [do |-> "esc", m |-> None] /\ Dismisses)
    BY DEF Fire, FireForgotten, outside, files
  <1>2. Carries(msg, p)
    BY DEF IInv, Carried
  <1> HIDE DEF p
  <1>3. Kept /\ OpensNothing /\ DOMAIN msg' = DOMAIN msg
    <2>1. \A n \in {p} : Carries(msg, n)
      BY <1>2
    <2>2. "skipped" \in Fates
      BY DEF Fates
    <2> QED
      BY <1>1, <2>1, <2>2, FateIsQuiet
  <1>4. /\ keep' \in [Keys -> Record]
        /\ \A l \in Keys : /\ keep'[l].pending \in {None, keep[l].pending} /\ keep'[l].typing = keep[l].typing
                           /\ keep'[l].picker = keep[l].picker /\ keep'[l].closing = keep[l].closing
    BY <1>1 DEF TypeOK, Record
  <1>5. job' \in Jobs \cup {None}
    BY <1>1 DEF Jobs
  <1>6. TypeOK'
    BY <1>1, <1>3, <1>4, <1>5, CountsStay DEF TypeOK, Kept
  <1>7. CASE job' = None
    BY <1>1, <1>3, <1>4, <1>6, <1>7, QuietKeeps
  <1>8. CASE job' = [do |-> "esc", m |-> None] /\ Dismisses
    <2>1. JobCarries' /\ Apart' /\ Looked' /\ Unheld'
      BY <1>1, <1>3, <1>4, <1>8, EscIsQuiet
    <2> QED
      BY <1>1, <1>3, <1>4, <1>6, <2>1, QuietButJob DEF IInv
  <1> QED
    BY <1>1, <1>7, <1>8

LEMMA FireScreenKeeps ==
  ASSUME TypeOK, IInv, NEW k \in Keys, Fire(k), keep[k].pending # None, FireScreen(k), Alive(k), topic = k
  PROVE  TypeOK' /\ IInv'
  <1> DEFINE p == keep[k].pending
             hold == [status |-> known.status]
             opens == Opens(msg[p].kind)
             picker == IF opens /\ ~Dismisses THEN hold ELSE keep[k].picker
  <1>1. /\ Still /\ job = None /\ (Succeeds \/ Fails)
        /\ UNCHANGED <<opt, known, topic, news, pane, entry, check, album, fetched>>
        /\ keep' = [keep EXCEPT ![k] = [@ EXCEPT !.pending = None, !.picker = picker]]
        /\ job' = IF opens /\ Dismisses THEN [do |-> "esc", m |-> p] ELSE None
        /\ IF opens /\ Dismisses THEN UNCHANGED msg ELSE Fate({p}, "sent")
    BY DEF Fire, FireScreen, outside, files
  <1>2. Carries(msg, p) /\ p \in Nat
    BY DEF IInv, Carried, TypeOK, Record
  <1>3. hold \in [status: Statuses] /\ hold # None /\ hold.status = known.status /\ known # Gone
    BY PromptsAssumption DEF Alive, TypeOK, Shown
  <1>4. picker \in [status: Statuses] \cup {None}
    BY <1>3 DEF TypeOK, Record
  <1> HIDE DEF hold
  <1>5. opens /\ ~Dismisses => picker = hold
    OBVIOUS
  <1>6. ~(opens /\ ~Dismisses) => picker = keep[k].picker
    OBVIOUS
  <1> HIDE DEF p, picker
  <1>7. /\ keep' \in [Keys -> Record]
        /\ \A l \in Keys : /\ keep'[l].pending \in {None, keep[l].pending} /\ keep'[l].typing = keep[l].typing
                           /\ keep'[l].picker = IF l = k THEN picker ELSE keep[l].picker
                           /\ keep'[l].closing = keep[l].closing
    BY <1>1, <1>4 DEF TypeOK, Record
  <1>8. job' \in Jobs \cup {None}
    BY <1>1, <1>2 DEF Jobs
  <1>9. "sent" \in Fates /\ msg \in Seq(Message)
    BY DEF Fates, TypeOK
  <1>10. Kept /\ DOMAIN msg' = DOMAIN msg
    <2>1. \A n \in {p} : n \in DOMAIN msg => msg[n].fate # "held"
      BY <1>2 DEF Carries
    <2>2. CASE UNCHANGED msg
      BY <2>2, SameIsQuiet
    <2>3. CASE Fate({p}, "sent")
      BY <1>9, <2>1, <2>3, FateKeeps, FateMeans
    <2> QED
      BY <1>1, <2>2, <2>3
  <1>11. TypeOK'
    BY <1>1, <1>7, <1>8, <1>10, CountsStay DEF TypeOK, Kept
  <1>12. CASE opens /\ Dismisses
    <2>1. JobCarries' /\ Apart' /\ Looked' /\ Unheld'
      BY <1>1, <1>2, <1>7, <1>10, <1>12, EscIsQuiet
    <2>2. OpensNothing
      BY <1>1, <1>12, SameIsQuiet
    <2> QED
      BY <1>1, <1>6, <1>7, <1>10, <1>11, <1>12, <2>1, <2>2, QuietButJob DEF IInv
  <1>13. CASE ~opens
    <2>1. \A n \in {p} : Carries(msg, n) /\ ~Opens(msg[n].kind)
      BY <1>2, <1>13
    <2>2. OpensNothing
      BY <1>1, <1>9, <1>13, <2>1, FateIsQuiet
    <2> QED
      BY <1>1, <1>6, <1>7, <1>10, <1>11, <1>13, <2>2, QuietKeeps
  <1>14. CASE opens /\ ~Dismisses
    <2>1. OneKey' = OneKey /\ InTime' = InTime
      BY <1>1 DEF OneKey, InTime, Undriven, Has
    <2>2. DialogIsBlocked' /\ PickerIsIdle' /\ Carried' /\ Apart' /\ Looked' /\ JobCarries' /\ Unheld'
      BY <1>1, <1>7, <1>10, <1>14, PaneStays, CarriedStays, ApartStays, LookStays, JobEnds DEF IInv, JobHas
    <2>3. OneKey => k = First
      BY DEF IInv, Home
    <2>4. Home'
      BY <1>1, <1>7, <2>1, <2>3 DEF IInv, Home, Here
    <2>5. NewestAsks'
      BY <1>1, <1>7, <1>10, NewestStays, PromptsAssumption DEF IInv, Here
    <2>6. PickerKnown'
      <3> SUFFICES ASSUME OneKey, InTime, Here, pane.view = "picker"
                   PROVE  KnownIdle' /\ \E m \in DOMAIN msg' : IsLast(msg', m) /\ Known(m)'
        BY <1>1, <2>1 DEF PickerKnown, Here
      <3>1. KnownIdle /\ \E m \in DOMAIN msg : IsLast(msg, m)
        BY DEF IInv, PickerKnown
      <3>2. PICK m \in DOMAIN msg : IsLast(msg, m)
        BY <3>1
      <3>3. IsLast(msg', m)
        BY <1>10, <3>2 DEF IsLast, Kept
      <3>4. keep'[First].picker = hold /\ First \in Keys
        BY <1>5, <1>7, <1>14, <2>3
      <3>5. IdleHold'
        BY <1>3, <3>1, <3>4 DEF IdleHold, KnownIdle
      <3> QED
        BY <1>1, <1>10, <3>1, <3>3, <3>5 DEF Known, KnownIdle
    <2> QED
      BY <1>1, <1>11, <2>2, <2>4, <2>5, <2>6, StillMeansNothing DEF IInv
  <1> QED
    BY <1>12, <1>13, <1>14

LEMMA FireKeeps ==
  ASSUME TypeOK, IInv, NEW k \in Keys, Fire(k)
  PROVE  TypeOK' /\ IInv'
  <1>1. CASE keep[k].pending = None
    <2>1. /\ Still /\ Succeeds
          /\ UNCHANGED <<opt, known, topic, news, pane, keep, entry, check, album, fetched, job, msg>>
      BY <1>1 DEF Fire, outside, files
    <2>2. TypeOK'
      BY <2>1, CountsStay DEF TypeOK
    <2> QED
      BY <2>1, <2>2, QuietKeeps, SameIsQuiet
  <1>2. CASE keep[k].pending # None /\ (~Alive(k) \/ topic # k)
    BY <1>2, FireForgottenKeeps DEF Fire
  <1>3. CASE keep[k].pending # None /\ Alive(k) /\ topic = k
    BY <1>3, FireScreenKeeps DEF Fire
  <1> QED
    BY <1>1, <1>2, <1>3

LEMMA MovedIs ==
  ASSUME TypeOK, NEW from \in Keys, NEW to \in Keys, keep' = Reassociated(from, to)
  PROVE  /\ keep' \in [Keys -> Record]
         /\ \A k \in Keys : /\ keep'[k].pending = None \/ \E l \in Keys : keep'[k].pending = keep[l].pending
                            /\ keep'[k].typing = None \/ \E l \in Keys : keep'[k].typing = keep[l].typing
  <1> DEFINE Own(mine, moved) == IF mine = None THEN moved ELSE mine
             old == keep[from]
             new == keep[to]
             both == [kb |-> Own(new.kb, old.kb), typing |-> Own(new.typing, old.typing),
                      pending |-> Own(new.pending, old.pending), picker |-> Own(new.picker, old.picker),
                      closing |-> Own(new.closing, old.closing)]
  <1>1. keep' = [keep EXCEPT ![to] = both, ![from] = Nothing]
    BY DEF Reassociated
  <1>2. old \in Record /\ new \in Record
    BY DEF TypeOK
  <1>3. both \in Record
    BY <1>2 DEF Record
  <1>4. Nothing \in Record /\ Nothing.pending = None /\ Nothing.typing = None
    BY DEF Nothing, Record
  <1>5. both.pending \in {new.pending, old.pending} /\ both.typing \in {new.typing, old.typing}
    OBVIOUS
  <1> HIDE DEF both
  <1>6. keep' \in [Keys -> Record]
    BY <1>1, <1>3, <1>4 DEF TypeOK
  <1>7. \A k \in Keys : keep'[k] = Nothing \/ keep'[k] = both \/ keep'[k] = keep[k]
    BY <1>1 DEF TypeOK
  <1>8. ASSUME NEW k \in Keys
        PROVE  /\ keep'[k].pending = None \/ \E l \in Keys : keep'[k].pending = keep[l].pending
               /\ keep'[k].typing = None \/ \E l \in Keys : keep'[k].typing = keep[l].typing
    BY <1>4, <1>5, <1>7
  <1> QED
    BY <1>6, <1>8

LEMMA HearKeeps ==
  ASSUME TypeOK, IInv, Hear
  PROVE  TypeOK' /\ IInv'
  <1> DEFINE from == Head(news).from
             to == Head(news).to
  <1>1. /\ Still /\ job = None /\ news # <<>> /\ news' = Tail(news)
        /\ UNCHANGED <<opt, pane, known, topic, entry, check, fetched, job, spent>>
        /\ IF Head(news).kind = "moved" THEN Reassociate(from, to) ELSE Forget(from)
    BY DEF Hear
  <1>2. /\ Head(news) \in News /\ news' \in Seq(News) /\ Head(news) = news[1] /\ 1 \in DOMAIN news
        /\ \A i \in DOMAIN news' : i + 1 \in DOMAIN news /\ news'[i] = news[i + 1]
    BY <1>1 DEF TypeOK
  <1>3. from \in Keys /\ to \in Keys
    BY <1>2 DEF News
  <1> HIDE DEF from, to
  <1>4. OneKey' = OneKey /\ Has("pencil")' = Has("pencil")
    BY <1>1 DEF OneKey, Has
  <1>5. DialogIsBlocked' /\ PickerIsIdle'
    BY <1>1, PaneStays DEF IInv
  <1>6. JobCarries' /\ Unheld'
    BY <1>1, JobEnds
  <1>7. CASE Reassociate(from, to) /\ Head(news).kind = "moved"
    <2>1. keep' = Reassociated(from, to) /\ (UNCHANGED msg \/ EndsForward(keep[from].pending, "replaced"))
          /\ album' = IF album = None THEN None ELSE IF album.key = from THEN [album EXCEPT !.key = to] ELSE album
      BY <1>7 DEF Reassociate
    <2>2. /\ keep' \in [Keys -> Record]
          /\ \A k \in Keys : /\ keep'[k].pending = None \/ \E l \in Keys : keep'[k].pending = keep[l].pending
                             /\ keep'[k].typing = None \/ \E l \in Keys : keep'[k].typing = keep[l].typing
      BY <1>3, <2>1, MovedIs
    <2>3. /\ album' \in Groups \cup {None}
          /\ album' = None \/ (album # None /\ album'.m = album.m /\ album'.what = album.what)
      BY <1>3, <2>1 DEF TypeOK, Groups
    <2>4. Kept
      <3>1. CASE UNCHANGED msg
        BY <3>1, SameIsQuiet
      <3>2. CASE keep[from].pending # None /\ Fate({keep[from].pending}, "replaced")
        <4>1. Carries(msg, keep[from].pending)
          BY <1>3, <3>2 DEF IInv, Carried
        <4>2. \A n \in {keep[from].pending} : n \in DOMAIN msg => msg[n].fate # "held"
          BY <4>1 DEF Carries
        <4>3. "replaced" \in Fates /\ msg \in Seq(Message)
          BY DEF Fates, TypeOK
        <4> QED
          BY <3>2, <4>2, <4>3, FateKeeps
      <3> QED
        BY <2>1, <3>1, <3>2 DEF EndsForward
    <2>5. TypeOK'
      BY <1>1, <1>2, <2>2, <2>3, <2>4 DEF TypeOK, Kept
    <2>6. Carried' /\ Apart'
      BY <1>1, <2>2, <2>3, <2>4, CarriedMoves, ApartStays DEF IInv, JobHas
    <2>7. Looked'
      BY <1>1, <1>4, <2>2 DEF IInv, Looked
    <2>8. ~OneKey'
      BY <1>2, <1>4, <1>7 DEF IInv, Home
    <2>9. Home' /\ NewestAsks' /\ PickerKnown'
      BY <2>8 DEF Home, NewestAsks, PickerKnown
    <2> QED
      BY <1>1, <1>5, <1>6, <2>5, <2>6, <2>7, <2>9, StillMeansNothing DEF IInv
  <1>8. CASE Forget(from)
    <2> DEFINE empty == [Nothing EXCEPT !.pending = keep[from].pending]
    <2>1. keep' = [keep EXCEPT ![from] = empty] /\ UNCHANGED <<album, msg>>
      BY <1>8 DEF Forget
    <2>2. /\ empty \in Record /\ empty.pending = keep[from].pending /\ empty.typing = None
          /\ empty.picker = None /\ empty.closing = None
      BY <1>3 DEF TypeOK, Nothing, Record
    <2> HIDE DEF empty
    <2>3. /\ keep' \in [Keys -> Record]
          /\ \A k \in Keys : /\ keep'[k].pending \in {None, keep[k].pending} /\ keep'[k].typing \in {None, keep[k].typing}
                             /\ keep'[k].picker \in {None, keep[k].picker} /\ keep'[k].closing \in {None, keep[k].closing}
      BY <1>3, <2>1, <2>2 DEF TypeOK
    <2>4. Kept /\ DOMAIN msg' = DOMAIN msg
      BY <2>1, SameIsQuiet
    <2>5. TypeOK'
      BY <1>1, <1>2, <2>1, <2>3 DEF TypeOK
    <2>6. Carried' /\ Apart' /\ Looked'
      BY <1>1, <2>1, <2>3, <2>4, CarriedStays, ApartStays, LookStays DEF IInv, JobHas
    <2>7. OneKey => ~Here'
      BY <1>1 DEF IInv, Home, Here
    <2>8. Home'
      BY <1>1, <1>2, <1>4, <2>3, <2>7 DEF IInv, Home, Here
    <2>9. NewestAsks' /\ PickerKnown'
      BY <1>4, <2>7 DEF NewestAsks, PickerKnown
    <2> QED
      BY <1>1, <1>5, <1>6, <2>5, <2>6, <2>8, <2>9, StillMeansNothing DEF IInv
  <1> QED
    BY <1>1, <1>7, <1>8

---------------------------------------------------------------------------
(* A text is handed to Herdr, with what was held back let go.              *)

(* Where a picker is up, the operator was told since it was opened.        *)
Told == \E m \in DOMAIN msg' : IsLast(msg', m) /\ (WarnedSince(msg', m) \/ msg'[m].fate # "sent")
PickerUp == OneKey /\ InTime /\ Here /\ pane.view = "picker"

LEMMA ToldIsKnown ==
  ASSUME TypeOK, UNCHANGED <<opt, known>>, pane'.view = "picker" => pane' = pane /\ Here,
         PickerUp => KnownIdle /\ Told
  PROVE  PickerKnown'
  <1>1. OneKey' = OneKey /\ InTime' = InTime
    BY DEF OneKey, InTime, Undriven, Has
  <1> SUFFICES ASSUME OneKey, InTime, Here', pane'.view = "picker"
               PROVE  KnownIdle' /\ \E m \in DOMAIN msg' : IsLast(msg', m) /\ Known(m)'
    BY <1>1 DEF PickerKnown
  <1>2. KnownIdle /\ Told
    BY DEF PickerUp
  <1> QED
    BY <1>2 DEF Told, Known, KnownIdle

LEMMA PromptKeeps ==
  ASSUME TypeOK, IInv, job = None, NEW m \in Nat, NEW kind \in Kinds \ {"part", "models"}, Prompt(m, kind), Succeeds,
         UNCHANGED <<opt, known, topic, news, entry, check, album>>, fetched' \subseteq fetched,
         Kept, Carried', keep' \in [Keys -> Record],
         \A k \in Keys : keep'[k].typing \in {None, keep[k].typing} /\ keep'[k].closing = keep[k].closing,
         OneKey => /\ keep'[First].picker = None
                   /\ \A k \in Keys \ {First} : keep'[k].pending = None /\ keep'[k].picker = None,
         Carries(msg', m), IF kind = "file" THEN IsFile(msg', m) ELSE msg'[m].kind = kind,
         Here /\ pane.status = "blocked" => ~Opens(kind),
         \A g \in fetched' : g.m # m, album # None => album.m # m,
         \A n \in DOMAIN msg' : n \notin DOMAIN msg => msg'[n].kind # "close",
         PickerUp => KnownIdle /\ Told,
         OneKey /\ InTime /\ Here /\ Opens(kind) /\ pane.status = "idle" =>
           KnownIdle /\ IsLast(msg', m) /\ msg'[m].fate # "sent"
  PROVE  TypeOK' /\ IInv'
  <1>1. /\ OneKey' = OneKey /\ InTime' = InTime /\ Has("pencil")' = Has("pencil") /\ Settled' = Settled
        /\ Undriven' = Undriven
    BY DEF OneKey, InTime, Has, Undriven, Settled
  <1>2. spent' \in [questions: Nat, presses: Nat, failures: Nat]
    BY CountsStay
  <1>3. KnownIdle' = KnownIdle /\ msg' \in Seq(Message)
    BY DEF KnownIdle, Kept
  <1>4. \A k \in Keys : keep[k].typing = None => keep'[k].typing = None
    OBVIOUS
  <1>5. First \in Keys
    BY PromptsAssumption
  <1>6. ASSUME Here' => Here /\ pane'.key = pane.key PROVE Home'
    BY <1>1, <1>6 DEF IInv, Home
  <1>7. ASSUME Here' => Here PROVE NewestAsks'
    BY <1>5, <1>7, NewestStays DEF IInv
  <1>8. CASE UNCHANGED pane /\ Still
    <2>1. DialogIsBlocked' /\ PickerIsIdle' /\ Home' /\ NewestAsks'
      BY <1>6, <1>7, <1>8, PaneStays DEF IInv, Here
    <2>2. PickerKnown'
      BY <1>1, <1>8 DEF PickerKnown, PickerUp, Told, Known, KnownIdle, Here
    <2>3. CASE UNCHANGED job
      <3>1. TypeOK'
        BY <1>2, <1>8, <2>3 DEF TypeOK, Kept
      <3>2. Apart' /\ Looked'
        BY <1>8, <2>3, ApartStays, LookStays DEF IInv, JobHas
      <3>3. JobCarries' /\ Unheld'
        BY <2>3, JobEnds
      <3> QED
        BY <1>8, <2>1, <2>2, <3>1, <3>2, <3>3, StillMeansNothing DEF IInv
    <2>4. CASE job' = [do |-> "blocked", m |-> m] /\ Here /\ pane.status = "blocked"
      <3>1. job' \in Jobs /\ job'.do = "blocked" /\ job'.m = m
        BY <2>4 DEF Jobs
      <3>2. TypeOK'
        BY <1>2, <1>8, <3>1 DEF TypeOK, Kept
      <3>3. ~Opens(msg'[m].kind)
        BY <2>4 DEF IsFile, Opens
      <3>4. JobCarries' /\ Unheld'
        BY <3>1, <3>3 DEF JobCarries, Unheld, Texts
      <3>5. Apart'
        BY <3>1 DEF IInv, Apart, JobHas
      <3>6. Looked'
        BY <1>1, <1>4, <3>1 DEF IInv, Looked
      <3> QED
        BY <1>8, <2>1, <2>2, <3>2, <3>4, <3>5, <3>6, StillMeansNothing DEF IInv
    <2>5. CASE job' = [do |-> "undriven", m |-> m, kind |-> kind] /\ Here /\ pane.status # "blocked" /\ Undriven
      <3>1. job' \in Jobs /\ job'.do = "undriven" /\ job'.m = m /\ job'.kind = kind
        BY <2>5 DEF Jobs
      <3>2. TypeOK'
        BY <1>2, <1>8, <3>1 DEF TypeOK, Kept
      <3>3. JobCarries'
        BY <1>1, <2>5, <3>1 DEF JobCarries, Texts
      <3>4. Unheld'
        BY <1>1, <1>3, <1>8, <3>1 DEF Unheld, Here
      <3>5. Apart'
        BY <3>1 DEF IInv, Apart, JobHas
      <3>6. ~Dialog /\ ~Dialog'
        BY <1>8, <2>5 DEF IInv, DialogIsBlocked, Dialog
      <3>7. Looked'
        BY <1>1, <1>4, <3>1, <3>6 DEF IInv, Looked
      <3> QED
        BY <1>8, <2>1, <2>2, <3>2, <3>3, <3>4, <3>5, <3>7, StillMeansNothing DEF IInv
    <2>6. CASE TextLands("prompt", kind, 0) /\ Here /\ UNCHANGED job
      BY <1>8, <2>3, <2>6
    <2> QED
      BY <2>3, <2>4, <2>5, <2>6 DEF Prompt
  <1>9. CASE TextLands("prompt", kind, 0) /\ Here /\ pane.status # "blocked" /\ UNCHANGED job
    <2>1. /\ Lands("prompt", 0)
          /\ pane'.view = "picker" => pane.view = "input" /\ pane.status = "idle" /\ kind \in {"usage", "models"}
      BY <1>9, TextLandsMeans DEF IInv
    <2>2. TypeOK'
      BY <1>2, <1>9, <2>1 DEF TypeOK, Kept, Lands
    <2>3. DialogIsBlocked' /\ PickerIsIdle'
      BY <2>1, LandsKeeps DEF IInv
    <2>4. Home' /\ NewestAsks'
      BY <1>6, <1>7, <1>9, <2>1 DEF Lands
    <2>5. Apart' /\ Looked'
      BY <1>9, ApartStays, LookStays DEF IInv, JobHas
    <2>6. JobCarries' /\ Unheld'
      BY <1>9, JobEnds
    <2>7. PickerKnown'
      <3> SUFFICES ASSUME OneKey, InTime, pane'.view = "picker"
                   PROVE  KnownIdle' /\ \E n \in DOMAIN msg' : IsLast(msg', n) /\ Known(n)'
        BY <1>1 DEF PickerKnown
      <3>1. Opens(kind) /\ pane.status = "idle"
        BY <2>1 DEF Opens
      <3>2. KnownIdle /\ IsLast(msg', m) /\ msg'[m].fate # "sent"
        BY <1>9, <3>1
      <3> QED
        BY <1>3, <3>2 DEF Known, IsLast
    <2>8. ~Dialog
      BY <1>9 DEF IInv, DialogIsBlocked
    <2>9. NothingUnmeant'
      BY <1>3, <1>9, <2>8, PromptIsMeant DEF PickerUp, Told
    <2> QED
      BY <2>2, <2>3, <2>4, <2>5, <2>6, <2>7, <2>9 DEF IInv
  <1> QED
    BY <1>8, <1>9 DEF Prompt

(* What is held back is let go, and the operator told or driving.          *)
LEMMA ReleaseKeeps ==
  ASSUME TypeOK, IInv, UNCHANGED <<opt, known, topic, news, entry, check, album, fetched, job>>, job = None,
         Kept, Succeeds, keep' \in [Keys -> Record],
         \A k \in Keys : /\ keep'[k].pending \in {None, keep[k].pending} /\ keep'[k].typing \in {None, keep[k].typing}
                         /\ keep'[k].picker \in {None, keep[k].picker} /\ keep'[k].closing \in {None, keep[k].closing},
         \A n \in DOMAIN msg' : n \notin DOMAIN msg => msg'[n].kind # "close",
         \/ UNCHANGED pane /\ Still
         \/ Here /\ \E key \in {"esc", "enter"} : KeyLands("operator", key, 0),
         PickerUp => KnownIdle /\ Told
  PROVE  TypeOK' /\ IInv'
  <1>1. spent' \in [questions: Nat, presses: Nat, failures: Nat]
    BY CountsStay
  <1>2. Carried' /\ Apart' /\ Looked'
    BY CarriedStays, ApartStays, LookStays DEF IInv, JobHas
  <1>3. JobCarries' /\ Unheld'
    BY JobEnds
  <1>4. CASE UNCHANGED pane /\ Still
    <2>1. TypeOK'
      BY <1>1, <1>4 DEF TypeOK, Kept
    <2>2. DialogIsBlocked' /\ PickerIsIdle' /\ Home' /\ NewestAsks'
      BY <1>4, PaneStays, HomeStays, NewestStays, PromptsAssumption DEF IInv, Here
    <2>3. PickerKnown'
      <3>1. OneKey' = OneKey /\ InTime' = InTime
        BY DEF OneKey, InTime, Undriven, Has
      <3> QED
        BY <1>4, <3>1 DEF PickerKnown, PickerUp, Told, Known, KnownIdle, Here
    <2> QED
      BY <1>2, <1>3, <1>4, <2>1, <2>2, <2>3, StillMeansNothing DEF IInv
  <1>5. ASSUME Here, NEW key \in {"esc", "enter"}, KeyLands("operator", key, 0)
        PROVE  TypeOK' /\ IInv'
    <2>1. /\ Lands("operator", 0) /\ effect'.what # "answer"
          /\ pane'.view = "picker" => pane' = pane
      BY <1>5, KeyLandsMeans DEF IInv
    <2>2. TypeOK'
      BY <1>1, <2>1 DEF TypeOK, Kept, Lands
    <2>3. DialogIsBlocked' /\ PickerIsIdle' /\ Home' /\ NewestAsks'
      BY <1>5, <2>1, LandedKeeps
    <2>4. PickerKnown'
      BY <1>5, <2>1, ToldIsKnown
    <2>5. NothingUnmeant'
      BY <2>1, LandedIsMeant
    <2> QED
      BY <1>2, <1>3, <2>2, <2>3, <2>4, <2>5 DEF IInv
  <1> QED
    BY <1>4, <1>5

---------------------------------------------------------------------------
(* Messages arrive.                                                        *)

(* A message that is written now: it is the last, and nothing carries it.  *)
Arrived(kind, fate) ==
  /\ Kept /\ DOMAIN msg' = DOMAIN msg \cup {New} /\ New \in Nat /\ New \notin DOMAIN msg
  /\ \A m \in DOMAIN msg : m < New
  /\ msg'[New].kind = kind /\ msg'[New].fate = fate

LEMMA ArrivesIs ==
  ASSUME TypeOK, NEW kind \in Kinds, NEW fate \in Fates, Arrives(kind, fate)
  PROVE  /\ Arrived(kind, fate)
         /\ ~Opens(kind) => OpensNothing
         /\ kind # "close" => \A n \in DOMAIN msg' : n \notin DOMAIN msg => msg'[n].kind # "close"
  <1>1. msg \in Seq(Message)
    BY DEF TypeOK
  <1>2. Arrived(kind, fate)
    BY <1>1, ArrivesMeans, ArrivesKeeps DEF Arrived
  <1>3. ~Opens(kind) => OpensNothing
    BY ArrivalIsQuiet
  <1> QED
    BY <1>2, <1>3 DEF Arrived

LEMMA NothingCarriesIt ==
  ASSUME TypeOK, IInv, New \notin DOMAIN msg
  PROVE  /\ \A g \in fetched : g.m # New
         /\ entry # None => entry.m # New
         /\ album # None => album.m # New
         /\ ~JobHas(New)
  <1>1. Carried /\ JobCarries
    BY DEF IInv
  <1>2. /\ \A g \in fetched : g.m # New
        /\ entry # None => entry.m # New
        /\ album # None => album.m # New
    BY <1>1 DEF Carried, Carries
  <1>3. ~JobHas(New)
    BY <1>1 DEF JobCarries, JobHas, Carries
  <1> QED
    BY <1>2, <1>3

(* What drives a picker tells of it, and so does a text held back; what    *)
(* opens one has no end yet.                                               *)
LEMMA DrivenIsTold ==
  ASSUME TypeOK, IInv, NEW kind, NEW fate, Arrived(kind, fate), PickerUp,
         \/ ~Opens(kind) /\ (fate = "held" \/ kind \in {"keys", "clear", "models"})
         \/ Opens(kind) /\ fate # "sent"
  PROVE  KnownIdle /\ Told
  <1>1. PICK m \in DOMAIN msg : IsLast(msg, m) /\ KnownIdle
    BY DEF IInv, PickerKnown, PickerUp
  <1>2. CASE ~Opens(kind) /\ (fate = "held" \/ kind \in {"keys", "clear", "models"})
    <2>1. IsLast(msg', m)
      BY <1>1, <1>2 DEF IsLast, Arrived, Kept
    <2>2. WarnedSince(msg', m)
      BY <1>1, <1>2 DEF WarnedSince, Arrived
    <2>3. m \in DOMAIN msg'
      BY <2>1 DEF IsLast
    <2> QED
      BY <1>1, <2>1, <2>2, <2>3 DEF Told
  <1>3. CASE Opens(kind) /\ fate # "sent"
    <2>1. \A n \in DOMAIN msg' : ~ n > New
      <3>1. \A n \in DOMAIN msg : n \in Nat
        BY DEF TypeOK
      <3>2. New \in Nat /\ (\A n \in DOMAIN msg : n < New) /\ DOMAIN msg' = DOMAIN msg \cup {New}
        BY DEF Arrived
      <3> QED
        BY <3>1, <3>2
    <2>2. IsLast(msg', New)
      BY <1>3, <2>1 DEF IsLast, Arrived
    <2>3. New \in DOMAIN msg' /\ msg'[New].fate # "sent"
      BY <1>3 DEF Arrived
    <2> QED
      BY <1>1, <2>2, <2>3 DEF Told
  <1> QED
    BY <1>2, <1>3

(* Nothing is held, and the message opens nothing.                         *)
LEMMA UnheldIsTold ==
  ASSUME TypeOK, IInv, Kept, OpensNothing, NEW k, OneKey => k = First, ~Held(k), PickerUp
  PROVE  KnownIdle /\ Told
  <1>1. KnownIdle
    BY DEF IInv, PickerKnown, PickerUp
  <1>2. ~IdleHold
    BY <1>1 DEF IdleHold, Held, KnownIdle, PickerUp
  <1> QED
    BY <1>2, PickerTold DEF PickerUp, Told

LEMMA HomeTopic ==
  ASSUME TypeOK, IInv
  PROVE  /\ topic \in Keys /\ First \in Keys
         /\ OneKey => topic = First
         /\ OneKey => \A k \in Keys \ {First} : keep[k].pending = None /\ keep[k].picker = None
         /\ OneKey /\ Here => known # Gone /\ known.key = First /\ Alive(topic)
  BY PromptsAssumption DEF TypeOK, IInv, Home, Alive

(* The registry knows no agent under the topic's key.                      *)
LEMMA ExitedKeeps ==
  ASSUME TypeOK, IInv, job = None, NEW kind \in Kinds, Exited(kind), ~Alive(topic)
  PROVE  TypeOK' /\ IInv'
  <1>1. /\ Still /\ Arrives(kind, "exited")
        /\ UNCHANGED <<opt, known, topic, news, keep, pane, entry, check, album, fetched, job, spent>>
    BY DEF Exited, Untouched, outside, files
  <1>2. "exited" \in Fates
    BY DEF Fates
  <1>3. Kept
    BY <1>1, <1>2, ArrivesIs DEF Arrived
  <1>4. TypeOK'
    BY <1>1, <1>3 DEF TypeOK, Kept
  <1>5. DialogIsBlocked' /\ PickerIsIdle' /\ Carried' /\ Apart' /\ Looked' /\ Home'
    BY <1>1, <1>3, PaneStays, CarriedStays, ApartStays, LookStays, HomeStays DEF IInv, JobHas, Here
  <1>6. JobCarries' /\ Unheld'
    BY <1>1, JobEnds
  <1>7. OneKey' => ~Here'
    BY <1>1, HomeTopic DEF OneKey, Has, Here
  <1>8. NewestAsks' /\ PickerKnown'
    BY <1>7 DEF NewestAsks, PickerKnown
  <1> QED
    BY <1>1, <1>4, <1>5, <1>6, <1>8, StillMeansNothing DEF IInv

(* The kept hold of one key is dropped.                                    *)
LEMMA ReleasedIs ==
  ASSUME TypeOK, NEW k \in Keys, keep' = [keep EXCEPT ![k].picker = None]
  PROVE  /\ keep' \in [Keys -> Record] /\ keep'[k].picker = None
         /\ \A l \in Keys : /\ keep'[l].pending = keep[l].pending /\ keep'[l].typing = keep[l].typing
                            /\ keep'[l].picker \in {None, keep[l].picker} /\ keep'[l].closing = keep[l].closing
  <1>1. keep' = [keep EXCEPT ![k] = [@ EXCEPT !.picker = None]]
    OBVIOUS
  <1>2. keep[k] \in Record
    BY DEF TypeOK
  <1> DEFINE r == [keep[k] EXCEPT !.picker = None]
  <1>3. /\ r \in Record /\ r.pending = keep[k].pending /\ r.typing = keep[k].typing /\ r.picker = None
        /\ r.closing = keep[k].closing
    BY <1>2 DEF Record
  <1>4. keep' = [keep EXCEPT ![k] = r]
    BY <1>1
  <1> HIDE DEF r
  <1> QED
    BY <1>3, <1>4 DEF TypeOK

LEMMA TakeTypingKeeps ==
  ASSUME TypeOK, IInv, job = None, NEW kind \in {"plain", "short"}, TakeTyping(topic, kind)
  PROVE  TypeOK' /\ IInv'
  <1> DEFINE k == topic
             q == keep[k].typing
  <1>1. /\ Still /\ Arrives(kind, "waiting") /\ q # None
        /\ keep' = [keep EXCEPT ![k] = [@ EXCEPT !.typing = None]]
        /\ job' = [do |-> "pencil", m |-> New, q |-> q]
        /\ UNCHANGED <<opt, known, topic, news, pane, entry, check, album, fetched, spent>>
    BY DEF TakeTyping, outside, files
  <1>2. k \in Keys /\ q \in Nat
    BY <1>1 DEF TypeOK, Record
  <1>3. kind \in Kinds /\ "waiting" \in Fates /\ ~Opens(kind) /\ kind # "close"
    BY DEF Kinds, Fates, Opens
  <1>4. /\ Arrived(kind, "waiting") /\ Kept /\ OpensNothing
        /\ \A n \in DOMAIN msg' : n \notin DOMAIN msg => msg'[n].kind # "close"
    BY <1>1, <1>3, ArrivesIs DEF Arrived
  <1>5. ~Settled' /\ Has("pencil")'
    BY <1>1, <1>2 DEF IInv, Looked, Settled, Has
  <1> HIDE DEF q
  <1>6. /\ keep' \in [Keys -> Record]
        /\ \A l \in Keys : /\ keep'[l].pending = keep[l].pending /\ keep'[l].picker = keep[l].picker
                           /\ keep'[l].closing = keep[l].closing
    BY <1>1, <1>2 DEF TypeOK, Record
  <1>7. New \in Nat /\ New \notin DOMAIN msg /\ Carries(msg', New) /\ msg'[New].kind = kind
    BY <1>4 DEF Arrived, Carries
  <1>8. job' \in Jobs /\ job'.do = "pencil" /\ job'.m = New
    BY <1>1, <1>2, <1>7 DEF Jobs
  <1>9. TypeOK'
    BY <1>1, <1>4, <1>6, <1>8 DEF TypeOK, Kept
  <1>10. JobCarries' /\ Unheld' /\ Looked'
    BY <1>3, <1>5, <1>7, <1>8 DEF JobCarries, Unheld, Looked, Texts
  <1>11. Apart'
    BY <1>1, <1>7, <1>8, NothingCarriesIt DEF IInv, Apart, JobHas
  <1> QED
    BY <1>1, <1>4, <1>6, <1>9, <1>10, <1>11, QuietButJob DEF IInv

LEMMA HoldKeeps ==
  ASSUME TypeOK, IInv, job = None, NEW kind \in {"plain", "short"}, Hold(topic, kind)
  PROVE  TypeOK' /\ IInv'
  <1>1. /\ Still /\ Arrives(kind, "held") /\ keep' = [keep EXCEPT ![topic].picker = None]
        /\ UNCHANGED <<opt, known, topic, news, pane, entry, check, album, fetched, job, spent>>
    BY DEF Hold, HoldForPicker, Untouched, outside, files
  <1>2. kind \in Kinds /\ "held" \in Fates /\ ~Opens(kind) /\ kind # "close"
    BY DEF Kinds, Fates, Opens
  <1>3. /\ Arrived(kind, "held") /\ Kept
        /\ \A n \in DOMAIN msg' : n \notin DOMAIN msg => msg'[n].kind # "close"
    BY <1>1, <1>2, ArrivesIs DEF Arrived
  <1>4. PickerUp => KnownIdle /\ Told
    BY <1>2, <1>3, DrivenIsTold
  <1> QED
    BY <1>1, <1>3, <1>4, HomeTopic, ReleasedIs, ReleaseKeeps DEF Succeeds

LEMMA ShortReplyKeeps ==
  ASSUME TypeOK, IInv, job = None, ShortReply(topic), Alive(topic)
  PROVE  TypeOK' /\ IInv'
  <1>1. /\ known.status = "blocked" /\ keep' = [keep EXCEPT ![topic].picker = None]
        /\ UNCHANGED <<opt, known, topic, news, entry, check, album, fetched, job, spent>>
        /\ \/ Here /\ KeyLands("operator", "enter", 0) /\ Arrives("short", "sent")
           \/ Arrives("short", "failed") /\ UNCHANGED pane /\ Still
    BY DEF ShortReply, outside, files
  <1>2. "short" \in Kinds /\ "sent" \in Fates /\ "failed" \in Fates
    BY DEF Kinds, Fates
  <1>3. /\ Kept
        /\ \A n \in DOMAIN msg' : n \notin DOMAIN msg => msg'[n].kind # "close"
    BY <1>1, <1>2, ArrivesIs DEF Arrived
  <1>4. ~PickerUp
    BY <1>1 DEF IInv, PickerKnown, PickerUp, KnownIdle
  <1> QED
    BY <1>1, <1>3, <1>4, HomeTopic, ReleasedIs, ReleaseKeeps DEF Succeeds

LEMMA SendKeeps ==
  ASSUME TypeOK, IInv, job = None, NEW kind \in {"plain", "short"}, Send(topic, kind), Alive(topic)
  PROVE  TypeOK' /\ IInv'
  <1>1. /\ ~Held(topic) /\ keep' = [keep EXCEPT ![topic].picker = None]
        /\ Arrives(kind, PromptFate) /\ Prompt(New, kind)
        /\ UNCHANGED <<opt, known, topic, news, entry, check, album, fetched, spent>>
    BY DEF Send, outside, files
  <1>2. kind \in Kinds \ {"part", "models"} /\ ~Opens(kind) /\ kind # "close" /\ kind # "file"
    BY DEF Kinds, Opens
  <1>3. PromptFate \in Fates /\ PromptFate # "held"
    BY DEF PromptFate, Fates
  <1>4. /\ Arrived(kind, PromptFate) /\ Kept /\ OpensNothing
        /\ \A n \in DOMAIN msg' : n \notin DOMAIN msg => msg'[n].kind # "close"
    BY <1>1, <1>2, <1>3, ArrivesIs DEF Arrived
  <1>5. /\ keep' \in [Keys -> Record] /\ keep'[topic].picker = None
        /\ \A l \in Keys : /\ keep'[l].pending = keep[l].pending /\ keep'[l].typing = keep[l].typing
                           /\ keep'[l].picker \in {None, keep[l].picker} /\ keep'[l].closing = keep[l].closing
    BY <1>1, HomeTopic, ReleasedIs
  <1>6. OneKey => /\ keep'[First].picker = None
                  /\ \A k \in Keys \ {First} : keep'[k].pending = None /\ keep'[k].picker = None
    BY <1>5, HomeTopic
  <1>7. PickerUp => KnownIdle /\ Told
    BY <1>1, <1>4, HomeTopic, UnheldIsTold
  <1>8. /\ New \in Nat /\ Carries(msg', New) /\ msg'[New].kind = kind
        /\ \A g \in fetched' : g.m # New
        /\ album # None => album.m # New
    BY <1>1, <1>3, <1>4, NothingCarriesIt DEF Arrived, Carries
  <1>9. Carried'
    BY <1>1, <1>4, <1>5, CarriedStays DEF IInv
  <1> QED
    BY <1>1, <1>2, <1>4, <1>5, <1>6, <1>7, <1>8, <1>9, PromptKeeps DEF Succeeds

LEMMA PlainKeeps ==
  ASSUME TypeOK, IInv, job = None, NEW kind \in {"plain", "short"}, Plain(kind)
  PROVE  TypeOK' /\ IInv'
  <1>1. kind \in Kinds
    BY DEF Kinds
  <1>2. CASE ~Alive(topic)
    <2>1. Exited(kind)
      BY <1>2 DEF Plain
    <2> QED
      BY <1>1, <1>2, <2>1, ExitedKeeps
  <1>3. CASE Alive(topic)
    <2>1. \/ TakeTyping(topic, kind)
          \/ kind = "short" /\ ShortReply(topic)
          \/ Hold(topic, kind)
          \/ Send(topic, kind)
      BY <1>3 DEF Plain
    <2> QED
      BY <1>3, <2>1, TakeTypingKeeps, ShortReplyKeeps, HoldKeeps, SendKeeps
  <1> QED
    BY <1>2, <1>3

---------------------------------------------------------------------------
(* Commands, keys, and the question of /close.                             *)

LEMMA CancelledIs ==
  ASSUME NEW r \in Record
  PROVE  /\ Cancelled(r) \in Record /\ Cancelled(r).pending = r.pending /\ Cancelled(r).typing = None
         /\ Cancelled(r).picker = r.picker /\ Cancelled(r).closing = r.closing
         /\ Released(Cancelled(r)) \in Record /\ Released(Cancelled(r)).pending = r.pending
         /\ Released(Cancelled(r)).typing = None /\ Released(Cancelled(r)).picker = None
         /\ Released(Cancelled(r)).closing = r.closing
  <1> DEFINE kb == IF r.kb = None THEN None ELSE IF r.kb.q = r.typing THEN None ELSE r.kb
             c == Cancelled(r)
  <1>1. kb \in [q: Nat, entry: BOOLEAN] \cup {None}
    BY DEF Record
  <1>2. r.typing # None => c = [r EXCEPT !.typing = None, !.kb = kb]
    BY DEF Cancelled
  <1> HIDE DEF kb
  <1>3. r.typing = None => c = r
    BY DEF Cancelled
  <1>4. /\ c \in Record /\ c.pending = r.pending /\ c.picker = r.picker /\ c.closing = r.closing
        /\ c.typing = None
    BY <1>1, <1>2, <1>3 DEF Record
  <1> HIDE DEF c
  <1>5. Released(c) = [c EXCEPT !.picker = None]
    BY DEF Released
  <1>6. /\ Released(c) \in Record /\ Released(c).pending = c.pending /\ Released(c).typing = c.typing
        /\ Released(c).picker = None /\ Released(c).closing = c.closing
    BY <1>4, <1>5 DEF Record
  <1> QED
    BY <1>4, <1>6 DEF c

(* The record of one key is another one.                                   *)
LEMMA OneRecord ==
  ASSUME TypeOK, NEW k \in Keys, NEW r \in Record, keep' = [keep EXCEPT ![k] = r]
  PROVE  keep' \in [Keys -> Record] /\ \A l \in Keys : keep'[l] = IF l = k THEN r ELSE keep[l]
  BY DEF TypeOK

LEMMA CommandReleases ==
  ASSUME TypeOK, NEW k \in Keys, keep' = [keep EXCEPT ![k] = Released(Cancelled(@))]
  PROVE  /\ keep' \in [Keys -> Record]
         /\ \A l \in Keys : /\ keep'[l].pending = keep[l].pending /\ keep'[l].typing \in {None, keep[l].typing}
                            /\ keep'[l].picker \in {None, keep[l].picker} /\ keep'[l].closing = keep[l].closing
  <1> DEFINE r == Released(Cancelled(keep[k]))
  <1>1. keep[k] \in Record
    BY DEF TypeOK
  <1>2. /\ r \in Record /\ r.pending = keep[k].pending /\ r.typing = None /\ r.picker = None /\ r.closing = keep[k].closing
    BY <1>1, CancelledIs
  <1>3. keep' = [keep EXCEPT ![k] = r]
    OBVIOUS
  <1> HIDE DEF r
  <1>4. keep' \in [Keys -> Record] /\ \A l \in Keys : keep'[l] = IF l = k THEN r ELSE keep[l]
    BY <1>2, <1>3, OneRecord
  <1> QED
    BY <1>2, <1>4

LEMMA SendKeysKeeps ==
  ASSUME TypeOK, IInv, job = None, NEW key \in {"esc", "enter"}, SendKeys(key)
  PROVE  TypeOK' /\ IInv'
  <1>1. "keys" \in Kinds /\ "sent" \in Fates /\ "failed" \in Fates /\ ~Opens("keys")
    BY DEF Kinds, Fates, Opens
  <1>2. CASE ~Alive(topic)
    <2>1. Exited("keys")
      BY <1>2 DEF SendKeys
    <2> QED
      BY <1>1, <1>2, <2>1, ExitedKeeps
  <1>3. CASE Alive(topic)
    <2>1. /\ keep' = [keep EXCEPT ![topic] = Released(Cancelled(@))]
          /\ UNCHANGED <<opt, known, topic, news, entry, check, album, fetched, job, spent>>
          /\ \/ Here /\ KeyLands("operator", key, 0) /\ Arrives("keys", "sent")
             \/ Arrives("keys", "failed") /\ UNCHANGED pane /\ Still
      BY <1>3 DEF SendKeys, outside, files
    <2>2. PICK fate \in {"sent", "failed"} : Arrives("keys", fate)
      BY <2>1
    <2>3. fate \in Fates
      BY <1>1
    <2>4. /\ Arrived("keys", fate) /\ Kept
          /\ \A n \in DOMAIN msg' : n \notin DOMAIN msg => msg'[n].kind # "close"
      BY <1>1, <2>2, <2>3, ArrivesIs DEF Arrived
    <2>5. PickerUp => KnownIdle /\ Told
      BY <1>1, <2>4, DrivenIsTold
    <2>6. /\ keep' \in [Keys -> Record]
          /\ \A l \in Keys : /\ keep'[l].pending = keep[l].pending /\ keep'[l].typing \in {None, keep[l].typing}
                             /\ keep'[l].picker \in {None, keep[l].picker} /\ keep'[l].closing = keep[l].closing
      BY <2>1, HomeTopic, CommandReleases
    <2> QED
      BY <2>1, <2>4, <2>5, <2>6, ReleaseKeeps DEF Succeeds
  <1> QED
    BY <1>2, <1>3

(* A command that is not handed over.                                      *)
LEMMA RefusedKeeps ==
  ASSUME TypeOK, IInv, job = None, NEW kind \in {"usage", "clear", "models"}, NEW fate \in {"refused", "failed"},
         Arrives(kind, fate), keep' = [keep EXCEPT ![topic] = Released(Cancelled(@))], Still,
         UNCHANGED <<opt, known, topic, news, pane, entry, check, album, fetched, job, spent>>
  PROVE  TypeOK' /\ IInv'
  <1>1. kind \in Kinds /\ fate \in Fates /\ fate # "sent" /\ kind # "close" /\ (Opens(kind) \/ kind \in {"clear", "models"})
    BY DEF Kinds, Fates, Opens
  <1>2. /\ Arrived(kind, fate) /\ Kept
        /\ \A n \in DOMAIN msg' : n \notin DOMAIN msg => msg'[n].kind # "close"
    BY <1>1, ArrivesIs DEF Arrived
  <1>3. PickerUp => KnownIdle /\ Told
    BY <1>1, <1>2, DrivenIsTold
  <1>4. /\ keep' \in [Keys -> Record]
        /\ \A l \in Keys : /\ keep'[l].pending = keep[l].pending /\ keep'[l].typing \in {None, keep[l].typing}
                           /\ keep'[l].picker \in {None, keep[l].picker} /\ keep'[l].closing = keep[l].closing
    BY HomeTopic, CommandReleases
  <1> QED
    BY <1>2, <1>3, <1>4, ReleaseKeeps DEF Succeeds

(* The newer command takes the place of the older.                         *)
LEMMA Replaces ==
  ASSUME TypeOK, IInv, NEW kind \in Kinds, NEW p, p # None => Carries(msg, p),
         msg' = Append([m \in DOMAIN msg |-> IF m = p THEN [msg[m] EXCEPT !.fate = "replaced"] ELSE msg[m]],
                       [kind |-> kind, fate |-> "waiting"])
  PROVE  Arrived(kind, "waiting")
  <1> DEFINE ms == [m \in DOMAIN msg |-> IF m = p THEN [msg[m] EXCEPT !.fate = "replaced"] ELSE msg[m]]
             r == [kind |-> kind, fate |-> "waiting"]
  <1>1. PICK n \in Nat : msg \in [1..n -> Message]
    BY SeqDef DEF TypeOK
  <1>2. n = Len(msg) /\ DOMAIN msg = 1..n
    BY <1>1
  <1>3. \A m \in 1..n : msg[m] \in Message
    BY <1>1
  <1>4. ms \in [1..n -> Message] /\ \A m \in 1..n :
          ms[m].kind = msg[m].kind /\ (m # p => ms[m] = msg[m]) /\ (m = p => ms[m].fate = "replaced")
    BY <1>2, <1>3 DEF Message, Fates
  <1>5. r \in Message /\ r.kind = kind /\ r.fate = "waiting"
    BY DEF Message, Fates
  <1>6. msg' = Append(ms, r)
    OBVIOUS
  <1> HIDE DEF ms, r
  <1>7. ms \in Seq(Message) /\ Len(ms) = n
    BY <1>4, SeqDef
  <1>8. /\ msg' \in Seq(Message) /\ DOMAIN msg' = 1..(n + 1) /\ msg'[n + 1] = r
        /\ \A m \in 1..n : msg'[m] = ms[m]
    <2>1. n \in Nat /\ ms \in Seq(Message) /\ Len(ms) = n /\ r \in Message
      BY <1>1, <1>5, <1>7
    <2>2. /\ Append(ms, r) \in Seq(Message) /\ Len(Append(ms, r)) = Len(ms) + 1 /\ Append(ms, r)[Len(ms) + 1] = r
          /\ \A m \in 1..Len(ms) : Append(ms, r)[m] = ms[m]
      BY <2>1, AppendProperties
    <2>3. /\ msg' \in Seq(Message) /\ Len(msg') = n + 1 /\ msg'[n + 1] = r
          /\ \A m \in 1..n : msg'[m] = ms[m]
      BY <1>6, <2>1, <2>2
    <2>4. DOMAIN msg' = 1..(n + 1)
      BY <2>3
    <2> QED
      BY <2>3, <2>4
  <1>9. New = n + 1
    BY <1>2 DEF New
  <1>10. \A m \in DOMAIN msg : m \in DOMAIN msg' /\ msg'[m].kind = msg[m].kind /\ (msg'[m].fate = "held" <=> msg[m].fate = "held")
    <2>1. ASSUME NEW m \in DOMAIN msg
          PROVE  m \in DOMAIN msg' /\ msg'[m].kind = msg[m].kind /\ (msg'[m].fate = "held" <=> msg[m].fate = "held")
      <3>1. m \in 1..n /\ m \in DOMAIN msg' /\ msg'[m] = ms[m]
        BY <1>2, <1>8
      <3>2. CASE m # p
        BY <1>4, <3>1, <3>2
      <3>3. CASE m = p
        <4>1. p # None
          BY <1>2, <3>3, PromptsAssumption
        <4>2. msg[m].fate # "held"
          BY <3>3, <4>1 DEF Carries
        <4> QED
          BY <1>4, <3>1, <3>3, <4>2
      <3> QED
        BY <3>2, <3>3
    <2> QED
      BY <2>1
  <1>11. Kept
    BY <1>8, <1>10 DEF Kept
  <1>12. DOMAIN msg' = DOMAIN msg \cup {n + 1} /\ n + 1 \in Nat /\ n + 1 \notin DOMAIN msg /\ \A m \in DOMAIN msg : m < n + 1
    BY <1>2, <1>8
  <1> QED
    BY <1>5, <1>8, <1>9, <1>11, <1>12 DEF Arrived

LEMMA ForwardKeeps ==
  ASSUME TypeOK, IInv, job = None, NEW kind \in {"usage", "clear", "models"}, Forward(kind)
  PROVE  TypeOK' /\ IInv'
  <1>1. kind \in Kinds /\ kind # "close" /\ kind # "part" /\ kind # "file"
    BY DEF Kinds
  <1>2. CASE ~Alive(topic)
    <2>1. Exited(kind)
      BY <1>2 DEF Forward
    <2> QED
      BY <1>1, <1>2, <2>1, ExitedKeeps
  <1> DEFINE k == topic
             old == Released(Cancelled(keep[k]))
             r == [old EXCEPT !.pending = New]
             p == keep[k].pending
  <1>3. CASE /\ Arrives(kind, "refused") \/ Arrives(kind, "failed")
             /\ keep' = [keep EXCEPT ![topic] = Released(Cancelled(@))] /\ Still
             /\ UNCHANGED <<opt, known, topic, news, pane, entry, check, album, fetched, job, spent>>
    BY <1>3, RefusedKeeps
  <1>4. CASE /\ Alive(topic) /\ known.status \notin {"working", "blocked"} /\ Fits(kind) /\ Here /\ pane.status # "blocked"
             /\ keep' = [keep EXCEPT ![k] = r]
             /\ msg' = Append([m \in DOMAIN msg |-> IF m = p THEN [msg[m] EXCEPT !.fate = "replaced"] ELSE msg[m]],
                              [kind |-> kind, fate |-> "waiting"])
             /\ Prompt(New, kind)
             /\ UNCHANGED <<opt, known, topic, news, entry, check, album, fetched, spent>>
    <2>1. k \in Keys /\ keep[k] \in Record /\ (p # None => Carries(msg, p))
      BY HomeTopic DEF TypeOK, IInv, Carried
    <2>2. Arrived(kind, "waiting")
      BY <1>1, <1>4, <2>1, Replaces
    <2>3. /\ old \in Record /\ old.typing = None /\ old.picker = None /\ old.closing = keep[k].closing
      BY <2>1, CancelledIs
    <2> HIDE DEF old, p
    <2>4. New \in Nat /\ Kept
      BY <2>2 DEF Arrived
    <2>5. /\ r \in Record /\ r.pending = New /\ r.typing = None /\ r.picker = None /\ r.closing = keep[k].closing
      BY <2>3, <2>4 DEF Record
    <2> HIDE DEF r
    <2>6. keep' \in [Keys -> Record] /\ \A l \in Keys : keep'[l] = IF l = k THEN r ELSE keep[l]
      BY <1>4, <2>1, <2>5, OneRecord
    <2>7. /\ \A l \in Keys : keep'[l].typing \in {None, keep[l].typing} /\ keep'[l].closing = keep[l].closing
          /\ OneKey => /\ keep'[First].picker = None
                       /\ \A l \in Keys \ {First} : keep'[l].pending = None /\ keep'[l].picker = None
      BY <2>5, <2>6, HomeTopic
    <2>8. /\ Carries(msg', New) /\ msg'[New].kind = kind /\ kind \in {"usage", "clear"}
          /\ \A g \in fetched' : g.m # New
          /\ album # None => album.m # New
          /\ \A n \in DOMAIN msg' : n \notin DOMAIN msg => msg'[n].kind # "close"
      BY <1>1, <1>4, <2>2, NothingCarriesIt DEF Arrived, Carries, Fits
    <2>9. Carried'
      <3>1. \A m : Carries(msg, m) => Carries(msg', m) /\ msg'[m].kind = msg[m].kind
        BY <2>4 DEF Carries, Kept
      <3>2. \A l \in Keys : keep'[l].pending # None =>
              Carries(msg', keep'[l].pending) /\ msg'[keep'[l].pending].kind \in {"usage", "clear"}
        BY <2>5, <2>6, <2>8, <3>1 DEF IInv, Carried
      <3> QED
        BY <1>4, <3>1, <3>2 DEF IInv, Carried, IsFile
    <2>10. PickerUp => KnownIdle /\ Told
      BY <2>2, <2>8, DrivenIsTold DEF Opens
    <2>11. KnownIdle
      BY <1>4 DEF KnownIdle, Alive, TypeOK, Shown, Statuses
    <2>12. Opens(kind) => IsLast(msg', New) /\ msg'[New].fate # "sent"
      <3>1. \A n \in DOMAIN msg : n \in Nat
        BY DEF TypeOK
      <3>2. \A n \in DOMAIN msg' : ~ n > New
        BY <2>2, <3>1 DEF Arrived
      <3> QED
        BY <2>2, <3>2 DEF Arrived, IsLast
    <2> QED
      BY <1>1, <1>4, <2>4, <2>6, <2>7, <2>8, <2>9, <2>10, <2>11, <2>12, PromptKeeps DEF Succeeds
  <1>5. CASE Alive(topic)
    <2>1. \/ /\ Arrives(kind, "refused") \/ Arrives(kind, "failed")
             /\ keep' = [keep EXCEPT ![k] = old] /\ Still
             /\ UNCHANGED <<opt, known, topic, news, pane, entry, check, album, fetched, job, spent>>
          \/ /\ known.status \notin {"working", "blocked"} /\ Fits(kind) /\ Here /\ pane.status # "blocked"
             /\ keep' = [keep EXCEPT ![k] = r]
             /\ msg' = Append([m \in DOMAIN msg |-> IF m = p THEN [msg[m] EXCEPT !.fate = "replaced"] ELSE msg[m]],
                              [kind |-> kind, fate |-> "waiting"])
             /\ Prompt(New, kind)
             /\ UNCHANGED <<opt, known, topic, news, entry, check, album, fetched, spent>>
      BY <1>5 DEF Forward, outside, files
    <2> QED
      BY <1>3, <1>4, <1>5, <2>1
  <1> QED
    BY <1>2, <1>5

LEMMA AskCloseKeeps ==
  ASSUME TypeOK, IInv, job = None, AskClose
  PROVE  TypeOK' /\ IInv'
  <1>1. "close" \in Kinds /\ "sent" \in Fates /\ ~Opens("close")
    BY DEF Kinds, Fates, Opens
  <1>2. CASE ~Alive(topic)
    <2>1. Exited("close")
      BY <1>2 DEF AskClose
    <2> QED
      BY <1>1, <1>2, <2>1, ExitedKeeps
  <1>3. CASE Alive(topic)
    <2> DEFINE old == Cancelled(keep[topic])
               R(c) == [old EXCEPT !.closing = c]
    <2>1. /\ Still /\ Arrives("close", "sent") /\ (Succeeds \/ Fails)
          /\ UNCHANGED <<opt, known, topic, news, pane, entry, check, album, fetched, job>>
          /\ \E c \in {New, None} : keep' = [keep EXCEPT ![topic] = R(c)]
      BY <1>3 DEF AskClose, outside, files
    <2>2. Arrived("close", "sent") /\ Kept /\ OpensNothing
      BY <1>1, <2>1, ArrivesIs DEF Arrived
    <2>3. New \in Nat
      BY <2>2 DEF Arrived
    <2>4. PICK c \in {New, None} : keep' = [keep EXCEPT ![topic] = R(c)]
      BY <2>1
    <2>5. old \in Record /\ old.pending = keep[topic].pending /\ old.typing = None /\ old.picker = keep[topic].picker
      BY HomeTopic, CancelledIs DEF TypeOK
    <2> HIDE DEF old
    <2>6. /\ R(c) \in Record /\ R(c).pending = keep[topic].pending /\ R(c).typing = None
          /\ R(c).picker = keep[topic].picker /\ R(c).closing = c
      BY <2>3, <2>5 DEF Record
    <2> HIDE DEF R
    <2>7. keep' \in [Keys -> Record] /\ \A l \in Keys : keep'[l] = IF l = topic THEN R(c) ELSE keep[l]
      BY <2>4, <2>6, HomeTopic, OneRecord
    <2>8. \A l \in Keys : /\ keep'[l].pending = keep[l].pending /\ keep'[l].typing \in {None, keep[l].typing}
                          /\ keep'[l].picker = keep[l].picker
      BY <2>6, <2>7
    <2>9. TypeOK'
      BY <2>1, <2>2, <2>7, CountsStay DEF TypeOK, Kept
    <2>10. DialogIsBlocked' /\ PickerIsIdle' /\ Carried' /\ Apart' /\ Looked' /\ Home'
      BY <2>1, <2>2, <2>8, PaneStays, CarriedStays, ApartStays, LookStays, HomeStays DEF IInv, JobHas, Here
    <2>11. JobCarries' /\ Unheld'
      BY <2>1, JobEnds
    <2>12. NewestAsks'
      <3>1. OneKey => keep'[First].closing \in {New, None}
        BY <2>4, <2>6, <2>7, HomeTopic
      <3>2. \A m \in DOMAIN msg' : m <= New
        <4>1. \A m \in DOMAIN msg : m \in Nat
          BY DEF TypeOK
        <4> QED
          BY <2>2, <4>1 DEF Arrived
      <3>3. OneKey' = OneKey
        BY <2>1 DEF OneKey, Has
      <3> QED
        BY <3>1, <3>2, <3>3 DEF NewestAsks
    <2>13. PickerKnown'
      BY <2>1, <2>2, <2>8, PickerStays, HomeTopic DEF IInv, KnownIdle, Here
    <2> QED
      BY <2>1, <2>9, <2>10, <2>11, <2>12, <2>13, StillMeansNothing DEF IInv
  <1> QED
    BY <1>2, <1>3

---------------------------------------------------------------------------
(* Files and new agents.                                                   *)

(* A message waits for a file, or for the start of an agent.               *)
LEMMA GroupKeeps ==
  ASSUME TypeOK, IInv, job = None, NEW kind \in {"file", "part", "new"}, NEW fate \in Fates, Arrives(kind, fate), fate # "held",
         NEW g \in Groups, g.m = New, g.what = IF kind = "new" THEN "start" ELSE "files",
         Still, UNCHANGED <<opt, pane, known, topic, news, keep, entry, check, job, spent>>,
         \/ UNCHANGED <<album, fetched>>
         \/ kind # "part" /\ fetched' = fetched \cup {g} /\ UNCHANGED album
         \/ kind = "part" /\ album = None /\ album' = g /\ UNCHANGED fetched
  PROVE  TypeOK' /\ IInv'
  <1>1. kind \in Kinds /\ ~Opens(kind) /\ kind # "close"
    BY DEF Kinds, Opens
  <1>2. /\ Arrived(kind, fate) /\ Kept /\ OpensNothing
        /\ \A n \in DOMAIN msg' : n \notin DOMAIN msg => msg'[n].kind # "close"
    BY <1>1, ArrivesIs DEF Arrived
  <1>3. /\ New \notin DOMAIN msg /\ Carries(msg', New) /\ msg'[New].kind = kind
    BY <1>2 DEF Arrived, Carries
  <1>4. /\ fetched' \in SUBSET Groups /\ album' \in Groups \cup {None}
    BY DEF TypeOK
  <1>5. TypeOK'
    BY <1>2, <1>4 DEF TypeOK, Kept
  <1>6. DialogIsBlocked' /\ PickerIsIdle' /\ Looked' /\ Home' /\ NewestAsks' /\ PickerKnown'
    BY <1>2, PaneStays, LookStays, HomeStays, NewestStays, PickerStays, HomeTopic DEF IInv, Here, KnownIdle
  <1>7. JobCarries' /\ Unheld'
    BY JobEnds
  <1>8. Carried'
    <2>1. \A m : Carries(msg, m) => Carries(msg', m) /\ msg'[m].kind = msg[m].kind
      BY <1>2 DEF Carries, Kept
    <2>2. \A h \in fetched' : h \in fetched \/ (h = g /\ kind # "part")
      OBVIOUS
    <2>3. album' # None => album' = album \/ (album' = g /\ kind = "part")
      OBVIOUS
    <2>4. kind # "part" => (g.what = "files" /\ IsFile(msg', g.m)) \/ (g.what = "start" /\ msg'[g.m].kind = "new")
      BY <1>3 DEF IsFile
    <2>5. kind = "part" => g.what = "files" /\ IsFile(msg', g.m)
      BY <1>3 DEF IsFile
    <2>6. Carries(msg', g.m)
      BY <1>3
    <2>7. Carried
      BY DEF IInv
    <2>8. \A h \in fetched' :
            Carries(msg', h.m) /\ ((h.what = "files" /\ IsFile(msg', h.m)) \/ (h.what = "start" /\ msg'[h.m].kind = "new"))
      <3>1. \A h \in fetched :
              Carries(msg', h.m) /\ ((h.what = "files" /\ IsFile(msg', h.m)) \/ (h.what = "start" /\ msg'[h.m].kind = "new"))
        BY <2>1, <2>7 DEF Carried, IsFile
      <3> QED
        BY <2>2, <2>4, <2>6, <3>1
    <2>9. album' # None => Carries(msg', album'.m) /\ IsFile(msg', album'.m) /\ album'.what = "files"
      BY <2>1, <2>3, <2>5, <2>6, <2>7 DEF Carried, IsFile
    <2> QED
      BY <2>1, <2>7, <2>8, <2>9 DEF Carried, IsFile
  <1>9. Apart'
    BY <1>3, NothingCarriesIt DEF IInv, Apart, JobHas
  <1> QED
    BY <1>5, <1>6, <1>7, <1>8, <1>9, StillMeansNothing DEF IInv

LEMMA AttachKeeps ==
  ASSUME TypeOK, IInv, job = None, NEW kind \in {"file", "part"}, Attach(kind)
  PROVE  TypeOK' /\ IInv'
  <1>1. kind \in Kinds /\ topic \in Keys /\ New \in Nat
    BY DEF Kinds, TypeOK, New
  <1>2. CASE ~Alive(topic)
    <2>1. Exited(kind)
      BY <1>2 DEF Attach
    <2> QED
      BY <1>1, <1>2, <2>1, ExitedKeeps
  <1>3. CASE Alive(topic)
    <2> DEFINE g == Group(New)
    <2>1. /\ Still /\ UNCHANGED <<opt, pane, known, topic, news, keep, entry, check, job, spent>>
          /\ \/ Arrives(kind, "refused") /\ UNCHANGED <<album, fetched>>
             \/ kind = "file" /\ fetched' = fetched \cup {g} /\ Arrives(kind, "waiting") /\ UNCHANGED album
             \/ kind = "part" /\ album = None /\ album' = g /\ Arrives(kind, "waiting") /\ UNCHANGED fetched
             \/ kind = "part" /\ album # None /\ Arrives(kind, "joined") /\ UNCHANGED <<album, fetched>>
      BY <1>3 DEF Attach, outside
    <2>2. g \in Groups /\ g.m = New /\ g.what = "files"
      BY <1>1 DEF Group, Groups
    <2> HIDE DEF g
    <2>3. PICK fate \in {"refused", "waiting", "joined"} : Arrives(kind, fate)
      BY <2>1
    <2>4. fate \in Fates /\ fate # "held"
      BY DEF Fates
    <2> QED
      BY <2>1, <2>2, <2>3, <2>4, GroupKeeps
  <1> QED
    BY <1>2, <1>3

LEMMA StartAgentKeeps ==
  ASSUME TypeOK, IInv, job = None, StartAgent
  PROVE  TypeOK' /\ IInv'
  <1> DEFINE g == [what |-> "start", m |-> New, key |-> topic]
  <1>1. /\ Still /\ UNCHANGED <<opt, pane, known, topic, news, keep, entry, check, job, spent, album>>
        /\ \/ Arrives("new", "failed") /\ UNCHANGED fetched
           \/ Arrives("new", "waiting") /\ fetched' = fetched \cup {g}
    BY DEF StartAgent, outside
  <1>2. g \in Groups /\ g.m = New /\ g.what = "start"
    BY DEF Groups, TypeOK, New
  <1> HIDE DEF g
  <1>3. PICK fate \in {"failed", "waiting"} : Arrives("new", fate)
    BY <1>1
  <1>4. fate \in Fates /\ fate # "held"
    BY DEF Fates
  <1> QED
    BY <1>1, <1>2, <1>3, <1>4, GroupKeeps

(* A file that is held back.                                               *)
LEMMA FileHeldKeeps ==
  ASSUME TypeOK, IInv, job = None, NEW g \in fetched, g.what = "files", fetched' = fetched \ {g}, Succeeds,
         UNCHANGED <<opt, pane, known, topic, news, entry, check, album, job>>, Still,
         keep' = [keep EXCEPT ![topic].picker = None], Fate({g.m}, "held")
  PROVE  TypeOK' /\ IInv'
  <1>1. Carries(msg, g.m) /\ IsFile(msg, g.m)
    BY DEF IInv, Carried
  <1>2. /\ msg' \in Seq(Message) /\ DOMAIN msg' = DOMAIN msg
        /\ \A m \in DOMAIN msg :
             msg'[m].kind = msg[m].kind /\ msg'[m].fate = IF m \in {g.m} THEN "held" ELSE msg[m].fate
    <2>1. "held" \in Fates /\ msg \in Seq(Message)
      BY DEF Fates, TypeOK
    <2> QED
      BY <2>1, FateMeans
  <1>3. /\ keep' \in [Keys -> Record]
        /\ \A l \in Keys : /\ keep'[l].pending = keep[l].pending /\ keep'[l].typing = keep[l].typing
                           /\ keep'[l].picker \in {None, keep[l].picker} /\ keep'[l].closing = keep[l].closing
    BY HomeTopic, ReleasedIs
  <1>4. TypeOK'
    BY <1>2, <1>3, CountsStay DEF TypeOK
  <1>5. \A m : Carries(msg, m) /\ m # g.m => Carries(msg', m) /\ msg'[m].kind = msg[m].kind
    BY <1>2 DEF Carries
  <1>6. Carried'
    <2>1. \A k \in Keys : keep'[k].pending # None =>
            Carries(msg', keep'[k].pending) /\ msg'[keep'[k].pending].kind \in {"usage", "clear"}
      BY <1>1, <1>3, <1>5 DEF IInv, Carried, IsFile
    <2>2. check # None => Carries(msg', check.m) /\ ~IsFile(msg', check.m)
      BY <1>1, <1>5 DEF IInv, Carried, IsFile
    <2>3. /\ entry # None => entry.m # g.m
          /\ album # None => album.m # g.m
          /\ \A h \in fetched' : h \in fetched /\ h.m # g.m
      BY DEF IInv, Apart
    <2> QED
      BY <1>5, <2>1, <2>2, <2>3 DEF IInv, Carried, IsFile
  <1>7. DialogIsBlocked' /\ PickerIsIdle' /\ Apart' /\ Looked' /\ Home'
    BY <1>3, PaneStays, ApartStays, LookStays, HomeStays DEF IInv, JobHas, Here
  <1>8. JobCarries' /\ Unheld'
    BY JobEnds
  <1>9. NewestAsks'
    BY <1>2, <1>3, HomeTopic DEF IInv, NewestAsks, OneKey, Has, Here
  <1>10. PickerKnown'
    <2>1. PickerUp => KnownIdle /\ Told
      <3> SUFFICES ASSUME PickerUp PROVE KnownIdle /\ Told
        OBVIOUS
      <3>1. PICK m \in DOMAIN msg : IsLast(msg, m) /\ KnownIdle
        BY DEF IInv, PickerKnown, PickerUp
      <3>2. IsLast(msg', m)
        BY <1>2, <3>1 DEF IsLast
      <3>3. g.m \in DOMAIN msg' /\ msg'[g.m].fate = "held" /\ msg'[g.m].kind \in {"file", "part"}
        BY <1>1, <1>2 DEF Carries, IsFile
      <3>4. WarnedSince(msg', m)
        BY <3>3 DEF WarnedSince
      <3> QED
        BY <1>2, <3>1, <3>2, <3>4 DEF Told
    <2>2. OneKey' = OneKey /\ InTime' = InTime
      BY DEF OneKey, InTime, Undriven, Has
    <2> QED
      BY <2>1, <2>2 DEF PickerKnown, PickerUp, Told, Known, KnownIdle, Here
  <1> QED
    BY <1>4, <1>6, <1>7, <1>8, <1>9, <1>10, StillMeansNothing DEF IInv

LEMMA InboxFinishedKeeps ==
  ASSUME TypeOK, IInv, NEW g \in fetched, InboxFinished(g)
  PROVE  TypeOK' /\ IInv'
  <1> DEFINE m == g.m
  <1>1. /\ job = None /\ g.what = "files" /\ fetched' = fetched \ {g} /\ Succeeds
        /\ UNCHANGED <<opt, known, topic, news, entry, check, album>>
        /\ \/ (Fate({m}, "failed") \/ Fate({m}, "kept")) /\ UNCHANGED <<pane, keep, job>> /\ Still
           \/ Delivered(m)
    BY DEF InboxFinished, outside
  <1>2. Carries(msg, g.m) /\ IsFile(msg, g.m) /\ ~Opens(msg[g.m].kind) /\ g.m \in Nat
    BY <1>1 DEF IInv, Carried, IsFile, Opens, TypeOK, Groups
  <1>3. ASSUME NEW f \in Fates, f # "held", Fate({g.m}, f)
        PROVE  Kept /\ OpensNothing /\ DOMAIN msg' = DOMAIN msg
    <2>1. \A n \in {g.m} : Carries(msg, n) /\ ~Opens(msg[n].kind)
      BY <1>2
    <2> QED
      BY <1>3, <2>1, FateIsQuiet
  <1>4. CASE (Fate({g.m}, "failed") \/ Fate({g.m}, "kept")) /\ UNCHANGED <<pane, keep, job>> /\ Still
    <2>1. PICK f \in {"failed", "kept"} : Fate({g.m}, f)
      BY <1>4
    <2>2. f \in Fates /\ f # "held"
      BY DEF Fates
    <2>3. Kept /\ OpensNothing /\ DOMAIN msg' = DOMAIN msg
      BY <1>3, <2>1, <2>2
    <2>4. TypeOK'
      BY <1>1, <1>4, <2>3, CountsStay DEF TypeOK, Kept
    <2> QED
      BY <1>1, <1>4, <2>3, <2>4, QuietKeeps
  <1>5. CASE HoldForPicker(topic) /\ Fate({g.m}, "held") /\ UNCHANGED <<pane, job>> /\ Still
    BY <1>1, <1>5, FileHeldKeeps DEF HoldForPicker
  <1>6. CASE /\ ~Held(topic) /\ keep' = [keep EXCEPT ![topic].picker = None]
             /\ Fate({g.m}, PromptFate) /\ Prompt(g.m, "file")
    <2>1. PromptFate \in Fates /\ PromptFate # "held"
      BY DEF PromptFate, Fates
    <2>2. Kept /\ OpensNothing /\ DOMAIN msg' = DOMAIN msg
      BY <1>3, <1>6, <2>1
    <2>3. /\ keep' \in [Keys -> Record] /\ keep'[topic].picker = None
          /\ \A l \in Keys : /\ keep'[l].pending = keep[l].pending /\ keep'[l].typing = keep[l].typing
                             /\ keep'[l].picker \in {None, keep[l].picker} /\ keep'[l].closing = keep[l].closing
      BY <1>6, HomeTopic, ReleasedIs
    <2>4. OneKey => /\ keep'[First].picker = None
                    /\ \A k \in Keys \ {First} : keep'[k].pending = None /\ keep'[k].picker = None
      BY <2>3, HomeTopic
    <2>5. PickerUp => KnownIdle /\ Told
      BY <1>6, <2>2, HomeTopic, UnheldIsTold
    <2>6. Carries(msg', g.m) /\ IsFile(msg', g.m)
      BY <1>2, <2>2 DEF Carries, IsFile, Kept
    <2>7. /\ \A h \in fetched' : h.m # g.m
          /\ album # None => album.m # g.m
      BY <1>1 DEF IInv, Apart
    <2>8. Carried'
      BY <1>1, <2>2, <2>3, CarriedStays DEF IInv
    <2>9. "file" \in Kinds \ {"part", "models"} /\ ~Opens("file")
      BY DEF Kinds, Opens
    <2>10. \A n \in DOMAIN msg' : n \notin DOMAIN msg => msg'[n].kind # "close"
      BY <2>2
    <2> QED
      BY <1>1, <1>2, <1>6, <2>2, <2>3, <2>4, <2>5, <2>6, <2>7, <2>8, <2>9, <2>10, PromptKeeps
  <1> QED
    BY <1>1, <1>4, <1>5, <1>6 DEF Delivered

---------------------------------------------------------------------------
(* Every step.                                                             *)

LEMMA HandleTopicKeeps ==
  ASSUME TypeOK, IInv, NEW kind \in Kinds, HandleTopic(kind)
  PROVE  TypeOK' /\ IInv'
  <1>1. job = None
    BY DEF HandleTopic
  <1>2. CASE kind \in {"plain", "short"} /\ Plain(kind)
    BY <1>1, <1>2, PlainKeeps
  <1>3. CASE kind \in {"file", "part"} /\ Attach(kind)
    BY <1>1, <1>3, AttachKeeps
  <1>4. CASE kind \in {"usage", "clear", "models"} /\ Forward(kind)
    BY <1>1, <1>4, ForwardKeeps
  <1>5. CASE \E key \in {"esc", "enter"} : SendKeys(key)
    BY <1>1, <1>5, SendKeysKeeps
  <1>6. CASE AskClose
    BY <1>1, <1>6, AskCloseKeeps
  <1>7. CASE StartAgent
    BY <1>1, <1>7, StartAgentKeeps
  <1> QED
    BY <1>2, <1>3, <1>4, <1>5, <1>6, <1>7 DEF HandleTopic

LEMMA Starts ==
  ASSUME Init
  PROVE  TypeOK /\ IInv
  <1>1. PICK status \in {"idle", "working"} :
          /\ pane = [key |-> First, status |-> status, view |-> "input", question |-> 0, box |-> <<>>]
          /\ known = [key |-> First, status |-> status]
    BY DEF Init
  <1>2. First \in Keys
    BY PromptsAssumption
  <1>3. <<>> \in Seq(Nat)
    OBVIOUS
  <1>4. pane \in Pane /\ pane.view = "input" /\ pane.status = status /\ pane.key = First
    BY <1>1, <1>2, <1>3 DEF Pane, Views, Statuses
  <1>5. known \in Shown /\ known.key = First /\ known # Gone
    BY <1>1, <1>2, PromptsAssumption DEF Shown, Statuses
  <1>6. /\ opt \in Worlds /\ topic = First /\ news = <<>> /\ keep = [k \in Keys |-> Nothing]
        /\ entry = None /\ check = None /\ album = None /\ fetched = {} /\ job = None /\ msg = <<>> /\ effect = None
        /\ spent = [questions |-> 0, presses |-> 0, failures |-> 0]
    BY DEF Init
  <1>7. /\ Nothing \in Record /\ Nothing.pending = None /\ Nothing.typing = None /\ Nothing.picker = None
        /\ Nothing.closing = None
    BY DEF Nothing, Record
  <1>8. /\ keep \in [Keys -> Record]
        /\ \A k \in Keys : keep[k] = Nothing
    BY <1>6, <1>7
  <1>9. news \in Seq(News) /\ msg \in Seq(Message) /\ DOMAIN msg = {} /\ DOMAIN news = {}
    BY <1>6
  <1>10. TypeOK
    BY <1>2, <1>4, <1>5, <1>6, <1>8, <1>9 DEF TypeOK
  <1>11. DialogIsBlocked /\ PickerIsIdle
    BY <1>1, <1>4 DEF DialogIsBlocked, PickerIsIdle, Dialog
  <1>12. Carried /\ JobCarries /\ Apart
    BY <1>6, <1>7, <1>8 DEF Carried, JobCarries, Apart
  <1>13. Looked
    BY <1>6, <1>7, <1>8 DEF Looked
  <1>14. Home
    BY <1>4, <1>5, <1>6, <1>7, <1>8, <1>9 DEF Home
  <1>15. NewestAsks /\ PickerKnown
    BY <1>2, <1>4, <1>7, <1>8 DEF NewestAsks, PickerKnown
  <1>16. Unheld /\ NothingUnmeant
    BY <1>6 DEF Unheld, NothingUnmeant
  <1> QED
    BY <1>10, <1>11, <1>12, <1>13, <1>14, <1>15, <1>16 DEF IInv

LEMMA StuttersKeep ==
  ASSUME TypeOK, IInv, UNCHANGED vars
  PROVE  TypeOK' /\ IInv'
  <1>1. UNCHANGED <<opt, pane, known, topic, news, keep, entry, check, album, fetched, job, msg, effect, spent>>
    BY DEF vars
  <1>2. TypeOK'
    BY <1>1 DEF TypeOK
  <1>3. Kept /\ OpensNothing
    BY <1>1, SameIsQuiet
  <1>4. DialogIsBlocked' /\ PickerIsIdle' /\ Carried' /\ JobCarries' /\ Apart' /\ Looked' /\ Home'
    BY <1>1, <1>3, PaneStays, CarriedStays, JobStays, ApartStays, LookStays, HomeStays DEF IInv, JobHas, Here
  <1>5. NewestAsks' /\ PickerKnown' /\ Unheld'
    BY <1>1, <1>3, NewestStays, PickerStays, UnheldStays DEF IInv, Here, KnownIdle
  <1>6. NothingUnmeant'
    BY <1>1 DEF IInv, NothingUnmeant, Settled, OneKey, InTime, Undriven, Has, Warned, LastOpened
  <1> QED
    BY <1>2, <1>4, <1>5, <1>6 DEF IInv

LEMMA NextKeeps ==
  ASSUME TypeOK, IInv, Next
  PROVE  TypeOK' /\ IInv'
  <1>1. CASE \E kind \in Kinds : HandleTopic(kind)
    BY <1>1, HandleTopicKeeps
  <1>2. CASE Job
    BY <1>2, TypeUndrivenKeeps, DismissKeeps, AnswerBlockedKeeps, PressDigitKeeps, TypeAnswerKeeps, TypeAfterPressKeeps,
       PressEnterKeeps DEF Job
  <1>3. CASE PollEntry \/ FireTyped \/ FireAlbum \/ FireSubmit
    BY <1>3, PollEntryKeeps, FireTypedKeeps, FireAlbumKeeps, FireSubmitKeeps
  <1>4. CASE Arrival
    BY <1>4, InboxFinishedKeeps, StartFinishedKeeps DEF Arrival
  <1>5. CASE \E k \in Keys : Fire(k) \/ TimerFires(k) \/ PostQuestion(k) \/ PressText(k)
    BY <1>5, FireKeeps, TimerFiresKeeps, PostQuestionKeeps, PressTextKeeps
  <1>6. CASE \E m \in 1..MaxMessages : PressClose(m)
    BY <1>6, PressCloseKeeps
  <1>7. CASE Hear \/ Notice \/ MapMoves
    BY <1>7, HearKeeps, NoticeKeeps, MapMovesKeeps
  <1>8. CASE Asks \/ Ends \/ Focuses \/ Desk \/ Exits \/ Rekeys
    BY <1>8, AsksKeeps, DeskKeeps
  <1> QED
    BY <1>1, <1>2, <1>3, <1>4, <1>5, <1>6, <1>7, <1>8 DEF Next

---------------------------------------------------------------------------
(* What the bridge read is there when its key follows, what it left open   *)
(* is held or told, and every file that is on its way has one carrier:     *)
(* this holds in every state, in every world.                              *)
THEOREM PromptsInvariant == Spec => [](TypeOK /\ IInv)
  <1>1. Init => TypeOK /\ IInv
    BY Starts
  <1>2. TypeOK /\ IInv /\ [Next]_vars => TypeOK' /\ IInv'
    BY NextKeeps, StuttersKeep
  <1> QED
    BY <1>1, <1>2, PTL DEF Spec

(* Nothing is typed that is not meant: what the bridge types on its own    *)
(* confirms no option of a dialog and answers the question it was written  *)
(* for (entryanswer.go:60, inbound.go:1090), an older question of /close   *)
(* closes nothing (:404), and no text chooses in a picker that the         *)
(* operator was not told of (:527).                                        *)
THEOREM TypedIsMeant == Spec => []NothingUnmeant
  <1>1. TypeOK /\ IInv => NothingUnmeant
    BY DEF IInv
  <1> QED
    BY <1>1, PromptsInvariant, PTL
=============================================================================
