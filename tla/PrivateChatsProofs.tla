------------------------- MODULE PrivateChatsProofs -------------------------
(***************************************************************************)
(* Proofs about PrivateChats, for any number of grants, messages and       *)
(* questions, and for any world.                                           *)
(*                                                                         *)
(* ActsUnderGrant needs that a job which acts on the agent, and an answer  *)
(* that waits for an entry, ask for an action that readers lack (LawInv):  *)
(* every step that acts is admitted once more as it acts.                  *)
(*                                                                         *)
(* ActsOnce needs that a message is at one place at a time: the queue, the *)
(* job, the answer that waits, an album or a transfer, and at none once it *)
(* has acted; what comes again is old and is at none that acts (OnceInv).  *)
(* That the answer waits when a tick polls it is TickInv.                  *)
(*                                                                         *)
(* AnswersWhatItShowed needs that a count of state changes stands for one  *)
(* question (AgentInv, PaneMove); then buttons, the post that brings them  *)
(* and its screen name the question of their count or an older one         *)
(* (ChatsOK, PostOK, SendOK), and a job that answers is meant for the      *)
(* question the pane shows (Meant).                                        *)
(***************************************************************************)
EXTENDS PrivateChats, TLAPS

Writing == {"dialog", "close", "prompt", "keys", "forward", "attachment"}
Acting(j) == j # None /\ j.do \notin {"send", "service"}

IsAct(j) == j = [do |-> j.do, action |-> j.action, meant |-> j.meant, m |-> j.m, g |-> j.g, rev |-> j.rev, late |-> j.late]
IsSend(j) == j = [do |-> "send", to |-> j.to, screen |-> j.screen, status |-> j.status, seq |-> j.seq]
IsBridge(b) ==
  b = [post |-> b.post, working |-> b.working, typing |-> b.typing, answer |-> b.answer,
       follow |-> b.follow, albums |-> b.albums]
IsAnswer(a) == a = [g |-> a.g, rev |-> a.rev, m |-> a.m, action |-> a.action, question |-> a.question, polls |-> a.polls]

LawJob(j) ==
  /\ Acting(j) => IsAct(j) /\ j.action \in Writing
  /\ j # None /\ j.do = "send" => IsSend(j)
LawBridge(b) == IsBridge(b) /\ (b.answer # None => IsAnswer(b.answer) /\ b.answer.action \in Writing)
LawInv == LawBridge(bridge) /\ LawJob(job) /\ ActsUnderGrant

---------------------------------------------------------------------------
(* What is made of the bridge and of a job.                                *)

LEMMA InvalidatedBridge ==
  ASSUME NEW b, IsBridge(b)
  PROVE  /\ IsBridge(Invalidated(b)) /\ Invalidated(b).answer = None /\ Invalidated(b).post = b.post
         /\ Invalidated(b).follow = b.follow /\ Invalidated(b).albums = b.albums
<1>1. PICK c : c = [b EXCEPT !.typing = None, !.answer = None]
  OBVIOUS
<1>2. Invalidated(b) = c
  BY <1>1 DEF Invalidated
<1>3. /\ IsBridge(c) /\ c.answer = None /\ c.post = b.post
      /\ c.follow = b.follow /\ c.albums = b.albums
  BY <1>1 DEF IsBridge
<1>4. QED BY <1>2, <1>3

(* An event of the agent makes or drops a post, and leaves the waits.      *)
LEMMA ObservedBridge ==
  ASSUME NEW b, IsBridge(b), NEW kind, NEW status, NEW seq
  PROVE  \E c : /\ c = Observed(b, kind, status, seq) /\ IsBridge(c)
                /\ c.post \in {None, b.post, Post("blocked", seq), Post("done", seq)}
                /\ c.answer = b.answer /\ c.follow = b.follow /\ c.albums = b.albums
<1> DEFINE P == IF ActiveGrants = {} THEN b.post ELSE Post("blocked", seq)
           Q == IF ActiveGrants = {} THEN b.post ELSE Post("done", seq)
<1>1. PICK c : c = Observed(b, kind, status, seq)
  OBVIOUS
<1>2. \/ c = b
      \/ c = [b EXCEPT !.post = None, !.working = FALSE]
      \/ c = [b EXCEPT !.post = None, !.working = TRUE]
      \/ c = [b EXCEPT !.working = FALSE, !.post = P]
      \/ c = [b EXCEPT !.working = FALSE, !.post = Q]
  BY <1>1 DEF Observed
<1>3. P \in {b.post, Post("blocked", seq)} /\ Q \in {b.post, Post("done", seq)}
  OBVIOUS
<1> HIDE DEF P, Q
<1> DEFINE Kept == IsBridge(c) /\ c.answer = b.answer /\ c.follow = b.follow /\ c.albums = b.albums
<1>4. CASE c = b
  BY <1>1, <1>4
<1>5. CASE c = [b EXCEPT !.post = None, !.working = FALSE]
  <2>1. Kept /\ c.post = None
    BY <1>5 DEF IsBridge
  <2>2. QED BY <1>1, <1>3, <2>1
<1>6. CASE c = [b EXCEPT !.post = None, !.working = TRUE]
  <2>1. Kept /\ c.post = None
    BY <1>6 DEF IsBridge
  <2>2. QED BY <1>1, <1>3, <2>1
<1>7. CASE c = [b EXCEPT !.working = FALSE, !.post = P]
  <2>1. Kept /\ c.post = P
    BY <1>7 DEF IsBridge
  <2>2. QED BY <1>1, <1>3, <2>1
<1>8. CASE c = [b EXCEPT !.working = FALSE, !.post = Q]
  <2>1. Kept /\ c.post = Q
    BY <1>8 DEF IsBridge
  <2>2. QED BY <1>1, <1>3, <2>1
<1>9. QED BY <1>2, <1>4, <1>5, <1>6, <1>7, <1>8

LEMMA InvalidatedLaw ==
  ASSUME NEW b, LawBridge(b)
  PROVE  LawBridge(Invalidated(b)) /\ Invalidated(b).answer = None
BY InvalidatedBridge DEF LawBridge

LEMMA ObservedLaw ==
  ASSUME NEW b, LawBridge(b), NEW kind, NEW status, NEW seq
  PROVE  LawBridge(Observed(b, kind, status, seq)) /\ Observed(b, kind, status, seq).answer = b.answer
<1>1. IsBridge(b)
  BY DEF LawBridge
<1>2. PICK c : /\ c = Observed(b, kind, status, seq) /\ IsBridge(c) /\ c.answer = b.answer
  BY <1>1, ObservedBridge
<1>3. QED BY <1>2 DEF LawBridge

LEMMA RefreshedLaw ==
  ASSUME NEW b, LawBridge(b)
  PROVE  LawBridge(Refreshed(b)) /\ Refreshed(b).answer = b.answer
BY ObservedLaw DEF Refreshed

LEMMA ActLaw ==
  ASSUME NEW do, NEW action, NEW meant
  PROVE  /\ IsAct(Act(do, action, meant)) /\ Act(do, action, meant).do = do
         /\ Act(do, action, meant).action = action /\ Act(do, action, meant).meant = meant
         /\ Act(do, action, meant).late = (heard # <<>>)
BY DEF IsAct, Act

(* A job that starts keeps what it was made for.                           *)
LEMMA StartedLaw ==
  ASSUME NEW j, IsAct(j), NEW m, NEW g, NEW rev, NEW k, k = [j EXCEPT !.m = m, !.g = g, !.rev = rev]
  PROVE  IsAct(k) /\ k.do = j.do /\ k.action = j.action /\ k.meant = j.meant /\ k.late = j.late
         /\ k.m = m /\ k.g = g /\ k.rev = rev
BY DEF IsAct
---------------------------------------------------------------------------
(* What a text or a key does is noted as the act of who is said to act.    *)
ActOf(by, g, rev, meant) ==
  /\ effect'.by = by /\ effect'.g = g /\ effect'.rev = rev /\ effect'.meant = meant
  /\ effect'.question = pane.question /\ effect'.late = (job # None /\ job.late)

LEMMA EffectNoted ==
  ASSUME NEW by, NEW g, NEW rev, NEW what, NEW meant, Effect(by, g, rev, what, meant)
  PROVE  ActOf(by, g, rev, meant)
BY DEF Effect, ActOf

LEMMA TextNoted ==
  ASSUME NEW by, NEW g, NEW rev, NEW kind, NEW meant, TextLands(by, g, rev, kind, meant)
  PROVE  ActOf(by, g, rev, meant)
<1>1. \E what : Effect(by, g, rev, what, meant)
  BY DEF TextLands
<1>2. QED BY <1>1, EffectNoted

LEMMA KeyNoted ==
  ASSUME NEW by, NEW g, NEW rev, NEW key, NEW meant, KeyLands(by, g, rev, key, meant)
  PROVE  ActOf(by, g, rev, meant)
<1>1. \E what : Effect(by, g, rev, what, meant)
  BY DEF KeyLands
<1>2. QED BY <1>1, EffectNoted

(* A job that is not denied acts under its grant, and not for a reader.    *)
LEMMA AdmittedAct ==
  ASSUME LawJob(job), Acting(job), ~Denied(job), NEW by, NEW meant, ActOf(by, job.g, job.rev, meant),
         UNCHANGED <<opt, grant>>
  PROVE  ActsUnderGrant'
<1>1. Begin(job.g, job.rev, job.action) /\ job.action \in Writing
  BY DEF LawJob, Acting, Denied
<1>2. Active(job.g, job.rev) /\ job.g \notin opt.readers
  BY <1>1 DEF Begin, Permits, Writing
<1>3. effect'.g = job.g /\ effect'.rev = job.rev
  BY DEF ActOf
<1>4. QED BY <1>2, <1>3 DEF ActsUnderGrant, Active

LEMMA StillLaw ==
  ASSUME Still
  PROVE  ActsUnderGrant'
BY DEF Still, ActsUnderGrant

(* A job that ends, and what stays as it is, are lawful.                   *)
LEMMA NoJobLaw ==
  ASSUME job' = None
  PROVE  LawJob(job)'
BY DEF LawJob, Acting

LEMMA SameLaw ==
  ASSUME LawInv
  PROVE  /\ UNCHANGED bridge => LawBridge(bridge)'
         /\ UNCHANGED job => LawJob(job)'
BY DEF LawInv, LawBridge, IsBridge, IsAnswer, LawJob, Acting, IsAct, IsSend

(* A handler starts a job with what it may ask for, or ends.               *)
Writer(j) == IsAct(j) /\ j.action \in Writing /\ j.do \notin {"send", "service"}

LEMMA ActWrites ==
  ASSUME NEW do, do \notin {"send", "service"}, NEW action \in Writing, NEW meant
  PROVE  Writer(Act(do, action, meant))
BY ActLaw DEF Writer

LEMMA WriterLaw ==
  ASSUME Writer(job')
  PROVE  LawJob(job)'
BY DEF Writer, LawJob, IsAct

LEMMA StartsLaw ==
  ASSUME LawInv, NEW m, NEW g, NEW rev, NEW next, Writer(next), Starts(m, g, rev, next)
  PROVE  LawBridge(bridge)' /\ LawJob(job)'
<1>1. CASE Begin(g, rev, next.action)
  <2>1. bridge' = Invalidated(bridge) /\ job' = [next EXCEPT !.m = m, !.g = g, !.rev = rev]
    BY <1>1 DEF Starts
  <2>2. Writer(job')
    BY <2>1 DEF Writer, IsAct
  <2>3. PICK c : c = Invalidated(bridge)
    OBVIOUS
  <2>4. LawBridge(c)
    BY <2>3, InvalidatedLaw DEF LawInv
  <2>5. LawBridge(bridge)'
    BY <2>1, <2>3, <2>4 DEF LawBridge, IsBridge, IsAnswer
  <2>6. QED BY <2>2, <2>5, WriterLaw
<1>2. CASE ~Begin(g, rev, next.action)
  BY <1>2, SameLaw DEF Starts
<1>3. QED BY <1>1, <1>2

(* A bridge that is made of the old one and keeps its answer is lawful.    *)
LEMMA RefreshLaw ==
  ASSUME LawBridge(bridge), NEW b, LawBridge(b), bridge' = Refreshed(b)
  PROVE  LawBridge(bridge)'
<1>1. PICK c : c = Refreshed(b)
  OBVIOUS
<1>2. LawBridge(c)
  BY <1>1, RefreshedLaw
<1>3. QED BY <1>1, <1>2 DEF LawBridge, IsBridge, IsAnswer
---------------------------------------------------------------------------
(* The jobs.                                                               *)

LEMMA PressLaw ==
  ASSUME LawInv, Press \/ PressUnmarked
  PROVE  LawInv'
<1>1. Acting(job) /\ ~Denied(job) /\ job' = None /\ UNCHANGED <<opt, grant>>
  BY DEF Press, PressUnmarked, Job, Acting
<1>2. KeyLands("press", job.g, job.rev, IF job.do = "choice" THEN "choice" ELSE "digit", job.meant)
  BY DEF Press, PressUnmarked
<1>3. ActsUnderGrant'
  BY <1>1, <1>2, KeyNoted, AdmittedAct DEF LawInv
<1>4. CASE Press
  <2>1. PICK b : /\ b = IF job.do = "pencil" THEN [bridge EXCEPT !.typing = [g |-> job.g, rev |-> job.rev, question |-> job.meant]] ELSE bridge
                 /\ bridge' = Refreshed(b)
    BY <1>4 DEF Press
  <2>2. LawBridge(b)
    BY <2>1 DEF LawInv, LawBridge, IsBridge
  <2>3. LawBridge(bridge)'
    BY <2>1, <2>2, RefreshLaw DEF LawInv
  <2>4. QED BY <1>1, <1>3, <2>3, NoJobLaw DEF LawInv
<1>5. CASE PressUnmarked
  <2>1. UNCHANGED bridge
    BY <1>5 DEF PressUnmarked
  <2>2. QED BY <1>1, <1>3, <2>1, NoJobLaw, SameLaw DEF LawInv
<1>6. QED BY <1>4, <1>5

LEMMA SendKeysLaw ==
  ASSUME LawInv, SendKeys
  PROVE  LawInv'
<1>1. Acting(job) /\ ~Denied(job) /\ job' = None /\ UNCHANGED <<opt, grant, bridge>>
  BY DEF SendKeys, Job, Acting
<1>2. KeyLands("keys", job.g, job.rev, job.do, 0)
  BY DEF SendKeys
<1>3. QED BY <1>1, <1>2, KeyNoted, AdmittedAct, NoJobLaw, SameLaw DEF LawInv

LEMMA CloseLaw ==
  ASSUME LawInv, Close
  PROVE  LawInv'
<1>1. Acting(job) /\ ~Denied(job) /\ job' = None /\ UNCHANGED <<opt, grant, bridge>>
  BY DEF Close, Job, Acting
<1>2. Effect("close", job.g, job.rev, "exit", 0)
  BY DEF Close
<1>3. QED BY <1>1, <1>2, EffectNoted, AdmittedAct, NoJobLaw, SameLaw DEF LawInv

LEMMA ForwardLaw ==
  ASSUME LawInv, Forward
  PROVE  LawInv'
<1>1. Acting(job) /\ ~Denied(job) /\ job' = None /\ UNCHANGED <<opt, grant>>
  BY DEF Forward, Job, Acting
<1>2. CASE pane.status = "blocked"
  BY <1>1, <1>2, NoJobLaw, SameLaw, StillLaw DEF LawInv, Forward
<1>3. CASE pane.status # "blocked"
  <2>1. /\ TextLands("forward", job.g, job.rev, "usage", 0)
        /\ bridge' = [bridge EXCEPT !.follow = Append(@, [g |-> job.g, rev |-> job.rev])]
    BY <1>3 DEF Forward
  <2>2. LawBridge(bridge)'
    BY <2>1 DEF LawInv, LawBridge, IsBridge, IsAnswer
  <2>3. QED BY <1>1, <2>1, <2>2, TextNoted, AdmittedAct, NoJobLaw DEF LawInv
<1>4. QED BY <1>2, <1>3

LEMMA PromptLaw ==
  ASSUME LawInv, Prompt
  PROVE  LawInv'
<1>1. Acting(job) /\ ~Denied(job) /\ UNCHANGED <<opt, grant, bridge>>
  BY DEF Prompt, Job, Acting
<1>2. CASE pane.status # "blocked"
  <2>1. TextLands("prompt", job.g, job.rev, "plain", 0) /\ job' = None
    BY <1>2 DEF Prompt
  <2>2. QED BY <1>1, <2>1, TextNoted, AdmittedAct, NoJobLaw, SameLaw DEF LawInv
<1>3. CASE pane.status = "blocked"
  <2>1. Still /\ (job' = None \/ job' = [job EXCEPT !.do = "look"])
    BY <1>3 DEF Prompt
  <2>2. LawJob(job)'
    BY <1>1, <2>1 DEF LawInv, LawJob, Acting, IsAct
  <2>3. QED BY <1>1, <2>1, <2>2, SameLaw, StillLaw DEF LawInv
<1>4. QED BY <1>2, <1>3

LEMMA StartAnswerLaw ==
  ASSUME LawInv, StartAnswer
  PROVE  LawInv'
<1>1. Acting(job) /\ Still /\ UNCHANGED bridge
  BY DEF StartAnswer, Job, Acting
<1>2. job' = None \/ job' = [job EXCEPT !.do = "type"] \/ job' = [job EXCEPT !.do = "focus"]
  BY DEF StartAnswer
<1>3. LawJob(job)'
  BY <1>1, <1>2 DEF LawInv, LawJob, Acting, IsAct
<1>4. QED BY <1>1, <1>3, SameLaw, StillLaw DEF LawInv

LEMMA FocusEntryLaw ==
  ASSUME LawInv, FocusEntry
  PROVE  LawInv'
<1>1. Acting(job) /\ ~Denied(job) /\ job' = None /\ UNCHANGED <<opt, grant>>
  BY DEF FocusEntry, Job, Acting
<1>2. /\ KeyLands("answer", job.g, job.rev, "digit", job.meant)
      /\ bridge' = [bridge EXCEPT !.answer = [g |-> job.g, rev |-> job.rev, m |-> job.m, action |-> job.action, question |-> job.meant, polls |-> 0]]
  BY DEF FocusEntry
<1>3. job.action \in Writing
  BY <1>1 DEF LawInv, LawJob
<1>4. LawBridge(bridge)'
  BY <1>2, <1>3 DEF LawInv, LawBridge, IsBridge, IsAnswer
<1>5. QED BY <1>1, <1>2, <1>4, KeyNoted, AdmittedAct, NoJobLaw DEF LawInv

LEMMA TypeLaw ==
  ASSUME LawInv, TypeAnswer \/ Deliver
  PROVE  LawInv'
<1>1. Acting(job) /\ ~Denied(job) /\ job' = None /\ UNCHANGED <<opt, grant, bridge>>
  BY DEF TypeAnswer, Deliver, Job, Acting
<1>2. \E by : TextLands(by, job.g, job.rev, "plain", job.meant)
  BY DEF TypeAnswer, Deliver
<1>3. QED BY <1>1, <1>2, TextNoted, AdmittedAct, NoJobLaw, SameLaw DEF LawInv

LEMMA JobsLaw ==
  ASSUME LawInv, Jobs
  PROVE  LawInv'
<1>1. CASE JobDenied \/ JobFails
  <2>1. Still /\ job' = None /\ UNCHANGED bridge
    BY <1>1 DEF JobDenied, JobFails
  <2>2. QED BY <2>1, NoJobLaw, SameLaw, StillLaw DEF LawInv
<1>2. CASE Service
  <2>1. Still /\ job' = None /\ UNCHANGED bridge
    BY <1>2 DEF Service
  <2>2. QED BY <2>1, NoJobLaw, SameLaw, StillLaw DEF LawInv
<1>3. CASE job # None /\ job.do = "send" /\ \E p \in job.to : SendPost(p)
  <2>1. PICK p \in job.to : SendPost(p)
    BY <1>3
  <2>2. Still /\ UNCHANGED bridge /\ (job' = None \/ job' = [job EXCEPT !.to = @ \ {p}])
    BY <2>1 DEF SendPost
  <2>3. LawJob(job)'
    BY <1>3, <2>2 DEF LawInv, LawJob, Acting, IsSend
  <2>4. QED BY <2>2, <2>3, SameLaw, StillLaw DEF LawInv
<1>4. QED
  BY <1>1, <1>2, <1>3, PressLaw, SendKeysLaw, CloseLaw, ForwardLaw, PromptLaw, StartAnswerLaw, FocusEntryLaw, TypeLaw DEF Jobs
---------------------------------------------------------------------------
(* The messages: records with a kind, and the queue holds some of them.    *)
IsMsg(r) == r = [g |-> r.g, kind |-> r.kind, n |-> r.n, fate |-> r.fate, acts |-> r.acts, held |-> r.held, old |-> r.old]
IsSeq(s) == \E S : s \in Seq(S)
Written(ms) == IsSeq(ms) /\ \A m \in 1..Len(ms) : IsMsg(ms[m]) /\ ms[m].kind \in Kinds /\ ms[m].g \in Grants
Waiting(q, n) == q \in Seq(Nat) /\ \A i \in 1..Len(q) : q[i] \in 1..n
MsgInv == Written(msg) /\ Waiting(queue, Len(msg))

LEMMA Rewritten ==
  ASSUME NEW old, NEW new, Written(old), new = [m \in DOMAIN old |-> new[m]],
         \A m \in DOMAIN old : IsMsg(new[m]) /\ new[m].kind = old[m].kind /\ new[m].g = old[m].g
  PROVE  Written(new) /\ Len(new) = Len(old)
<1>1. DOMAIN old = 1..Len(old) /\ Len(old) \in Nat
  BY DEF Written, IsSeq
<1>2. new \in Seq({new[m] : m \in 1..Len(old)})
  BY <1>1
<1>3. IsSeq(new) /\ Len(new) = Len(old)
  <2>1. DOMAIN new = 1..Len(new) /\ Len(new) \in Nat
    BY <1>2
  <2>2. DOMAIN new = DOMAIN old
    OBVIOUS
  <2>3. Len(new) = Len(old)
    BY <1>1, <2>1, <2>2
  <2>4. QED BY <1>2, <2>3 DEF IsSeq
<1>4. QED BY <1>1, <1>3 DEF Written

LEMMA WrittenNext ==
  ASSUME Written(msg'), Len(msg') = Len(msg)
  PROVE  Written(msg)' /\ Len(msg)' = Len(msg)
BY DEF Written, IsSeq, IsMsg

LEMMA EndsWritten ==
  ASSUME NEW ms, NEW fate, Written(msg), Ends(ms, fate)
  PROVE  Written(msg)' /\ Len(msg)' = Len(msg)
<1>1. msg' = [m \in DOMAIN msg |-> IF m \in ms THEN [msg[m] EXCEPT !.fate = fate] ELSE msg[m]]
  BY DEF Ends
<1>2. DOMAIN msg = 1..Len(msg)
  BY DEF Written, IsSeq
<1>3. \A m \in DOMAIN msg : IsMsg(msg'[m]) /\ msg'[m].kind = msg[m].kind /\ msg'[m].g = msg[m].g
  BY <1>1, <1>2 DEF Written, IsMsg
<1>4. msg' = [m \in DOMAIN msg |-> msg'[m]]
  BY <1>1
<1>5. QED BY <1>3, <1>4, Rewritten, WrittenNext

LEMMA ActedWritten ==
  ASSUME NEW m, NEW fate, Written(msg), EndsActed(m, fate)
  PROVE  Written(msg)' /\ Len(msg)' = Len(msg)
<1>1. msg' = [n \in DOMAIN msg |-> IF n = m THEN [msg[n] EXCEPT !.fate = fate, !.acts = @ + 1] ELSE msg[n]]
  BY DEF EndsActed
<1>2. DOMAIN msg = 1..Len(msg)
  BY DEF Written, IsSeq
<1>3. ASSUME NEW n \in DOMAIN msg
      PROVE  IsMsg(msg'[n]) /\ msg'[n].kind = msg[n].kind /\ msg'[n].g = msg[n].g
  <2>1. PICK r : r = msg[n]
    OBVIOUS
  <2>2. IsMsg(r)
    BY <1>2, <2>1 DEF Written
  <2>3. PICK k : k = msg'[n]
    OBVIOUS
  <2>4. k = r \/ k = [r EXCEPT !.fate = fate, !.acts = r.acts + 1]
    BY <1>1, <2>1, <2>3
  <2>5. IsMsg(k) /\ k.kind = r.kind /\ k.g = r.g
    BY <2>2, <2>4 DEF IsMsg
  <2>6. QED BY <2>1, <2>3, <2>5
<1>4. msg' = [n \in DOMAIN msg |-> msg'[n]]
  BY <1>1
<1>5. QED BY <1>3, <1>4, Rewritten, WrittenNext

LEMMA ConfirmWritten ==
  ASSUME Written(msg), Confirm
  PROVE  Written(msg)' /\ Len(msg)' = Len(msg)
<1>1. msg' = [m \in DOMAIN msg |-> IF msg[m].fate = "sent" THEN msg[m] ELSE [msg[m] EXCEPT !.held = FALSE]]
  BY DEF Confirm
<1>2. DOMAIN msg = 1..Len(msg)
  BY DEF Written, IsSeq
<1>3. ASSUME NEW n \in DOMAIN msg
      PROVE  IsMsg(msg'[n]) /\ msg'[n].kind = msg[n].kind /\ msg'[n].g = msg[n].g
  <2>1. PICK r : r = msg[n]
    OBVIOUS
  <2>2. IsMsg(r)
    BY <1>2, <2>1 DEF Written
  <2>3. PICK k : k = msg'[n]
    OBVIOUS
  <2>4. k = r \/ k = [r EXCEPT !.held = FALSE]
    BY <1>1, <2>1, <2>3
  <2>5. IsMsg(k) /\ k.kind = r.kind /\ k.g = r.g
    BY <2>2, <2>4 DEF IsMsg
  <2>6. QED BY <2>1, <2>3, <2>5
<1>4. msg' = [n \in DOMAIN msg |-> msg'[n]]
  BY <1>1
<1>5. QED BY <1>3, <1>4, Rewritten, WrittenNext

LEMMA RestartWritten ==
  ASSUME Written(msg), Restart
  PROVE  Written(msg)' /\ Len(msg)' = Len(msg)
<1>1. msg' = [m \in DOMAIN msg |->
               IF msg[m].held THEN [msg[m] EXCEPT !.fate = "sent", !.old = TRUE]
               ELSE [msg[m] EXCEPT !.fate = IF @ \in {"queued", "waiting"} THEN "lost" ELSE @]]
  BY DEF Restart
<1>2. DOMAIN msg = 1..Len(msg)
  BY DEF Written, IsSeq
<1>3. ASSUME NEW n \in DOMAIN msg
      PROVE  IsMsg(msg'[n]) /\ msg'[n].kind = msg[n].kind /\ msg'[n].g = msg[n].g
  <2>1. PICK r : r = msg[n]
    OBVIOUS
  <2>2. IsMsg(r)
    BY <1>2, <2>1 DEF Written
  <2>3. PICK k : k = msg'[n]
    OBVIOUS
  <2>4. k = r \/ k = [r EXCEPT !.fate = "sent", !.old = TRUE] \/ \E fate : k = [r EXCEPT !.fate = fate]
    BY <1>1, <2>1, <2>3
  <2>5. IsMsg(k) /\ k.kind = r.kind /\ k.g = r.g
    BY <2>2, <2>4 DEF IsMsg
  <2>6. QED BY <2>1, <2>3, <2>5
<1>4. msg' = [n \in DOMAIN msg |-> msg'[n]]
  BY <1>1
<1>5. QED BY <1>3, <1>4, Rewritten, WrittenNext

LEMMA SameWritten ==
  ASSUME Written(msg), UNCHANGED msg
  PROVE  Written(msg)' /\ Len(msg)' = Len(msg)
BY DEF Written, IsSeq, IsMsg

LEMMA ToldInv ==
  ASSUME MsgInv, Written(msg)', Len(msg)' = Len(msg),
         UNCHANGED queue \/ (queue # <<>> /\ queue' = Tail(queue)) \/ queue' = <<>>
  PROVE  MsgInv'
<1>1. Written(msg)' /\ Len(msg)' = Len(msg)
  OBVIOUS
<1>2. Waiting(queue, Len(msg))
  BY DEF MsgInv
<1>3. PICK q : q = queue'
  OBVIOUS
<1>4. Waiting(q, Len(msg))
  <2>1. CASE q = queue
    BY <1>2, <2>1
  <2>2. CASE queue # <<>> /\ q = Tail(queue)
    <3>1. queue \in Seq(Nat) /\ queue # <<>>
      BY <1>2, <2>2 DEF Waiting
    <3>2. q \in Seq(Nat) /\ Len(queue) \in Nat /\ Len(q) = Len(queue) - 1 /\ \A i \in 1..Len(q) : q[i] = queue[i + 1]
      BY <2>2, <3>1
    <3>3. \A i \in 1..Len(q) : i + 1 \in 1..Len(queue)
      BY <3>2
    <3>4. \A i \in 1..Len(queue) : queue[i] \in 1..Len(msg)
      BY <1>2 DEF Waiting
    <3>5. \A i \in 1..Len(q) : q[i] \in 1..Len(msg)
      BY <3>2, <3>3, <3>4
    <3>6. QED BY <3>2, <3>5 DEF Waiting
  <2>3. CASE q = <<>>
    BY <2>3 DEF Waiting
  <2>4. QED BY <1>3, <2>1, <2>2, <2>3
<1>5. QED BY <1>1, <1>3, <1>4 DEF MsgInv, Waiting

LEMMA WritesInv ==
  ASSUME MsgInv, NEW g \in Grants, NEW kind \in Kinds, Writes(g, kind)
  PROVE  MsgInv'
<1>1. PICK r : r = [g |-> g, kind |-> kind, n |-> Ref(g, kind), fate |-> "sent", acts |-> 0,
                    held |-> opt.restarts > 0, old |-> FALSE]
  OBVIOUS
<1>2. IsMsg(r) /\ r.kind \in Kinds /\ r.g \in Grants
  BY <1>1 DEF IsMsg
<1>3. msg' = Append(msg, r) /\ queue' = queue
  BY <1>1 DEF Writes
<1>4. PICK S : msg \in Seq(S)
  BY DEF MsgInv, Written, IsSeq
<1>5. /\ msg' \in Seq(S \cup {r}) /\ Len(msg') = Len(msg) + 1 /\ Len(msg) \in Nat
      /\ msg'[Len(msg) + 1] = r /\ \A m \in 1..Len(msg) : msg'[m] = msg[m]
  BY <1>3, <1>4
<1>6. Written(msg)'
  <2>1. \A m \in 1..Len(msg') : m \in 1..Len(msg) \/ m = Len(msg) + 1
    BY <1>5
  <2>2. \A m \in 1..Len(msg') : IsMsg(msg'[m]) /\ msg'[m].kind \in Kinds /\ msg'[m].g \in Grants
    BY <1>2, <1>5, <2>1 DEF MsgInv, Written, IsMsg
  <2>3. IsSeq(msg')
    BY <1>5 DEF IsSeq
  <2>4. QED BY <2>2, <2>3 DEF Written, IsSeq, IsMsg
<1>7. QED BY <1>3, <1>5, <1>6 DEF MsgInv, Waiting

LEMMA PollInv ==
  ASSUME MsgInv, NEW m, Poll(m)
  PROVE  MsgInv'
<1>1. \E ms, fate : Ends(ms, fate)
  BY DEF Poll
<1>2. Written(msg)' /\ Len(msg)' = Len(msg)
  BY <1>1, EndsWritten DEF MsgInv
<1>3. m \in 1..Len(msg) /\ Len(msg) \in Nat
  BY DEF Poll, MsgInv, Written, IsSeq
<1>4. queue' = queue \/ queue' = Append(queue, m)
  BY DEF Poll
<1>5. PICK q : q = queue'
  OBVIOUS
<1>6. Waiting(queue, Len(msg))
  BY DEF MsgInv
<1>7. Waiting(q, Len(msg))
  <2>1. CASE q = queue
    BY <1>6, <2>1
  <2>2. CASE q = Append(queue, m)
    <3>1. queue \in Seq(Nat) /\ m \in Nat
      BY <1>3, <1>6 DEF Waiting
    <3>2. /\ q \in Seq(Nat) /\ Len(q) = Len(queue) + 1 /\ Len(queue) \in Nat
          /\ q[Len(queue) + 1] = m /\ \A i \in 1..Len(queue) : q[i] = queue[i]
      BY <2>2, <3>1
    <3>3. \A i \in 1..Len(q) : i \in 1..Len(queue) \/ i = Len(queue) + 1
      BY <3>2
    <3>4. QED BY <1>3, <1>6, <3>2, <3>3 DEF Waiting
  <2>3. QED BY <1>4, <1>5, <2>1, <2>2
<1>8. QED BY <1>2, <1>5, <1>7 DEF MsgInv, Waiting
---------------------------------------------------------------------------
(* The steps of the bridge that handle a message, and what they start.     *)

LEMMA PressOfLaw ==
  ASSUME LawInv, NEW m, msg[m].kind \in {"choice", "pencil"}, PressOf(m)
  PROVE  LawBridge(bridge)' /\ LawJob(job)'
<1>1. CASE UNCHANGED <<bridge, job>>
  BY <1>1, SameLaw
<1>2. CASE ~UNCHANGED <<bridge, job>>
  <2>1. PICK b : b = chat[msg[m].g].button
    OBVIOUS
  <2>2. Starts(m, msg[m].g, b.rev, Act(msg[m].kind, "dialog", b.question))
    BY <1>2, <2>1 DEF PressOf, Told
  <2>3. Writer(Act(msg[m].kind, "dialog", b.question))
    BY ActWrites DEF Writing
  <2>4. QED BY <2>2, <2>3, StartsLaw
<1>3. QED BY <1>1, <1>2

LEMMA PressCloseLaw ==
  ASSUME LawInv, NEW m, PressClose(m)
  PROVE  LawBridge(bridge)' /\ LawJob(job)'
<1>1. CASE UNCHANGED <<bridge, job>>
  BY <1>1, SameLaw
<1>2. CASE ~UNCHANGED <<bridge, job>>
  <2>1. \E rev : Starts(m, msg[m].g, rev, Act("confirm", "close", 0))
    BY <1>2 DEF PressClose, Told
  <2>2. Writer(Act("confirm", "close", 0))
    BY ActWrites DEF Writing
  <2>3. QED BY <2>1, <2>2, StartsLaw
<1>3. QED BY <1>1, <1>2

LEMMA LocalLaw ==
  ASSUME LawInv, NEW m, Local(m)
  PROVE  LawBridge(bridge)' /\ LawJob(job)'
<1>1. UNCHANGED job /\ (UNCHANGED bridge \/ bridge' = Refreshed(bridge))
  BY DEF Local, Told
<1>2. LawBridge(bridge)'
  BY <1>1, SameLaw, RefreshLaw DEF LawInv
<1>3. QED BY <1>1, <1>2, SameLaw

LEMMA PlainLaw ==
  ASSUME LawInv, NEW m, NEW g, NEW rev, Plain(m, g, rev)
  PROVE  LawBridge(bridge)' /\ LawJob(job)'
<1>1. PICK j : j = IF bridge.typing = None THEN Act("prompt", "prompt", Shown(g)) ELSE Act("deliver", "prompt", bridge.typing.question)
  OBVIOUS
<1>2. Writer(j)
  BY <1>1, ActWrites DEF Writing
<1>3. Starts(m, g, rev, j)
  BY <1>1 DEF Plain
<1>4. QED BY <1>2, <1>3, StartsLaw

LEMMA CommandLaw ==
  ASSUME LawInv, NEW m, Command(m), msg[m].kind \in {"plain", "keys", "usage", "screen", "close", "file", "git", "part"}
  PROVE  LawBridge(bridge)' /\ LawJob(job)'
<1> DEFINE g == msg[m].g
           rev == grant[g].rev
<1>1. CASE UNCHANGED <<bridge, job>>
  BY <1>1, SameLaw
<1>2. CASE ~UNCHANGED <<bridge, job>>
  <2>1. \/ Plain(m, g, rev)
        \/ Starts(m, g, rev, Act("enter", "keys", 0))
        \/ Starts(m, g, rev, Act("usage", "forward", 0))
        \/ Part(m, g, rev) /\ UNCHANGED job
    <3>1. CASE msg[m].kind = "plain"
      BY <1>2, <3>1 DEF Command, Told
    <3>2. CASE msg[m].kind = "keys"
      BY <1>2, <3>2 DEF Command, Told
    <3>3. CASE msg[m].kind = "usage"
      BY <1>2, <3>3 DEF Command, Told
    <3>4. CASE msg[m].kind = "screen"
      BY <1>2, <3>4 DEF Command, Told
    <3>5. CASE msg[m].kind = "close"
      BY <1>2, <3>5 DEF Command, Told
    <3>6. CASE msg[m].kind \in {"file", "git"}
      BY <1>2, <3>6 DEF Command, Told
    <3>7. CASE msg[m].kind = "part"
      BY <1>2, <3>7 DEF Command, Told
    <3>8. QED BY <3>1, <3>2, <3>3, <3>4, <3>5, <3>6, <3>7
  <2>2. CASE Plain(m, g, rev)
    BY <2>2, PlainLaw
  <2>3. CASE Starts(m, g, rev, Act("enter", "keys", 0))
    <3>1. Writer(Act("enter", "keys", 0))
      BY ActWrites DEF Writing
    <3>2. QED BY <2>3, <3>1, StartsLaw
  <2>4. CASE Starts(m, g, rev, Act("usage", "forward", 0))
    <3>1. Writer(Act("usage", "forward", 0))
      BY ActWrites DEF Writing
    <3>2. QED BY <2>4, <3>1, StartsLaw
  <2>5. CASE Part(m, g, rev) /\ UNCHANGED job
    <3>1. UNCHANGED bridge \/ \E a : bridge' = [bridge EXCEPT !.albums = a]
      BY <2>5 DEF Part
    <3>2. LawBridge(bridge)'
      BY <3>1 DEF LawInv, LawBridge, IsBridge, IsAnswer
    <3>3. QED BY <2>5, <3>2, SameLaw
  <2>6. QED BY <2>1, <2>2, <2>3, <2>4, <2>5
<1>3. QED BY <1>1, <1>2

(* A handler is given a message that was written.                          *)
LEMMA HandledMessage ==
  ASSUME MsgInv, queue # <<>>
  PROVE  Head(queue) \in 1..Len(msg) /\ msg[Head(queue)].kind \in Kinds /\ msg[Head(queue)].g \in Grants
<1>1. queue \in Seq(Nat) /\ Len(queue) \in Nat /\ Len(queue) # 0 /\ Head(queue) = queue[1]
  BY DEF MsgInv, Waiting
<1>2. 1 \in 1..Len(queue)
  BY <1>1
<1>3. QED BY <1>1, <1>2 DEF MsgInv, Waiting, Written

LEMMA HandleLaw ==
  ASSUME MsgInv, LawInv, Handle
  PROVE  LawInv'
<1>1. PICK m : m = Head(queue)
  OBVIOUS
<1>2. msg[m].kind \in Kinds /\ Still
  BY <1>1, HandledMessage DEF Handle
<1>3. CASE msg[m].kind \in {"choice", "pencil"}
  <2>1. PressOf(m)
    BY <1>1, <1>3 DEF Handle
  <2>2. QED BY <1>2, <1>3, <2>1, PressOfLaw, StillLaw DEF LawInv
<1>4. CASE msg[m].kind = "confirm"
  <2>1. PressClose(m)
    BY <1>1, <1>4 DEF Handle
  <2>2. QED BY <1>2, <2>1, PressCloseLaw, StillLaw DEF LawInv
<1>5. CASE msg[m].kind \in {"pause", "resume"}
  <2>1. Local(m)
    BY <1>1, <1>5 DEF Handle
  <2>2. QED BY <1>2, <2>1, LocalLaw, StillLaw DEF LawInv
<1>6. CASE msg[m].kind \in {"plain", "keys", "usage", "screen", "close", "file", "git", "part"}
  <2>1. Command(m)
    BY <1>1, <1>6 DEF Handle
  <2>2. QED BY <1>2, <1>6, <2>1, CommandLaw, StillLaw DEF LawInv
<1>7. QED BY <1>2, <1>3, <1>4, <1>5, <1>6 DEF Kinds, Presses, Reads

LEMMA TransfersLaw ==
  ASSUME LawInv, Transfers
  PROVE  LawInv'
<1>1. CASE \E t \in moving : Transfer(t)
  <2>1. Still /\ UNCHANGED <<bridge, job>>
    BY <1>1 DEF Transfer
  <2>2. QED BY <2>1, SameLaw, StillLaw DEF LawInv
<1>2. CASE \E t \in moving : Result(t)
  <2>1. PICK t \in moving : Result(t)
    BY <1>2
  <2>2. Still
    BY <2>1 DEF Result
  <2>3. UNCHANGED <<bridge, job>> \/ Starts(t.m, t.g, t.rev, Act("prompt", "attachment", Shown(t.g)))
    BY <2>1 DEF Result
  <2>4. Writer(Act("prompt", "attachment", Shown(t.g)))
    BY ActWrites DEF Writing
  <2>5. LawBridge(bridge)' /\ LawJob(job)'
    BY <2>3, <2>4, SameLaw, StartsLaw
  <2>6. QED BY <2>2, <2>5, StillLaw DEF LawInv
<1>3. QED BY <1>1, <1>2 DEF Transfers
---------------------------------------------------------------------------
(* The tick, the news and the world.                                       *)

LEMMA PollAnswerLaw ==
  ASSUME LawInv, bridge.answer # None, PollAnswer
  PROVE  LawInv'
<1>1. PICK a : a = bridge.answer
  OBVIOUS
<1>2. Still
  BY DEF PollAnswer, Stage
<1>3. IsAnswer(a) /\ a.action \in Writing /\ IsBridge(bridge)
  BY <1>1 DEF LawInv, LawBridge
<1>4. \/ bridge' = [bridge EXCEPT !.answer = None] /\ UNCHANGED job
      \/ bridge' = [bridge EXCEPT !.answer = None] /\ job' = Typing(a)
      \/ bridge' = [bridge EXCEPT !.answer = Polled(a)] /\ UNCHANGED job
  BY <1>1 DEF PollAnswer
<1>5. LawBridge([bridge EXCEPT !.answer = None])
  BY <1>3 DEF LawBridge, IsBridge
<1>6. CASE bridge' = [bridge EXCEPT !.answer = None] /\ UNCHANGED job
  <2>1. LawBridge(bridge)'
    BY <1>5, <1>6 DEF LawBridge, IsBridge, IsAnswer
  <2>2. QED BY <1>2, <1>6, <2>1, SameLaw, StillLaw DEF LawInv
<1>7. CASE bridge' = [bridge EXCEPT !.answer = None] /\ job' = Typing(a)
  <2>1. LawBridge(bridge)'
    BY <1>5, <1>7 DEF LawBridge, IsBridge, IsAnswer
  <2>2. PICK j : j = Act("type", a.action, a.question)
    OBVIOUS
  <2>3. Writer(j)
    BY <1>3, <2>2, ActWrites
  <2>4. job' = [j EXCEPT !.m = a.m, !.g = a.g, !.rev = a.rev]
    BY <1>7, <2>2 DEF Typing
  <2>5. Writer(job')
    BY <2>3, <2>4 DEF Writer, IsAct
  <2>6. QED BY <1>2, <2>1, <2>5, WriterLaw, StillLaw DEF LawInv
<1>8. CASE bridge' = [bridge EXCEPT !.answer = Polled(a)] /\ UNCHANGED job
  <2>1. PICK c : c = Polled(a)
    OBVIOUS
  <2>2. IsAnswer(c) /\ c.action \in Writing
    BY <1>3, <2>1 DEF Polled, IsAnswer
  <2>3. bridge' = [bridge EXCEPT !.answer = c]
    BY <1>8, <2>1
  <2>4. LawBridge(bridge)'
    BY <1>3, <2>2, <2>3 DEF LawBridge, IsBridge, IsAnswer
  <2>5. QED BY <1>2, <1>8, <2>4, SameLaw, StillLaw DEF LawInv
<1>9. QED BY <1>4, <1>6, <1>7, <1>8

LEMMA SendLaw ==
  ASSUME LawInv, NEW to, NEW screen, Send(to, screen)
  PROVE  LawJob(job)'
<1>1. CASE to = {}
  BY <1>1, SameLaw DEF Send
<1>2. CASE to # {}
  <2>1. PICK status, seq : job' = [do |-> "send", to |-> to, screen |-> screen, status |-> status, seq |-> seq]
    BY <1>2 DEF Send
  <2>2. QED BY <2>1 DEF LawJob, Acting, IsSend
<1>3. QED BY <1>1, <1>2

LEMMA OutputLaw ==
  ASSUME LawInv, Output
  PROVE  LawInv'
<1>1. Still
  BY DEF Output, Stage
<1>2. \E p : bridge' = [bridge EXCEPT !.post = p]
  BY DEF Output, Captured, WaitForReply, Remains
<1>3. LawBridge(bridge)'
  BY <1>2 DEF LawInv, LawBridge, IsBridge, IsAnswer
<1>4. UNCHANGED job \/ \E to, screen : Send(to, screen)
  BY DEF Output, Captured, WaitForReply
<1>5. LawJob(job)'
  BY <1>4, SendLaw, SameLaw
<1>6. QED BY <1>1, <1>3, <1>5, StillLaw DEF LawInv

LEMMA FollowLaw ==
  ASSUME LawInv, Follow
  PROVE  LawInv'
<1>1. Still
  BY DEF Follow, Stage
<1>2. PICK f : f = Head(bridge.follow)
  OBVIOUS
<1>3. CASE UNCHANGED <<bridge, job>>
  BY <1>1, <1>3, SameLaw, StillLaw DEF LawInv
<1>4. CASE bridge' = [bridge EXCEPT !.follow = Tail(@)] /\ UNCHANGED job
  <2>1. LawBridge(bridge)'
    BY <1>4 DEF LawInv, LawBridge, IsBridge, IsAnswer
  <2>2. QED BY <1>1, <1>4, <2>1, SameLaw, StillLaw DEF LawInv
<1>5. CASE /\ bridge' = [Invalidated(bridge) EXCEPT !.follow = Tail(@)]
           /\ job' = [Act("esc", "keys", 0) EXCEPT !.g = f.g, !.rev = f.rev]
  <2>1. PICK c : c = Invalidated(bridge)
    OBVIOUS
  <2>2. LawBridge(c)
    BY <2>1, InvalidatedLaw DEF LawInv
  <2>3. bridge' = [c EXCEPT !.follow = Tail(c.follow)]
    BY <1>5, <2>1
  <2>4. LawBridge(bridge)'
    BY <2>2, <2>3 DEF LawBridge, IsBridge, IsAnswer
  <2>5. PICK j : j = Act("esc", "keys", 0)
    OBVIOUS
  <2>6. Writer(j)
    BY <2>5, ActWrites DEF Writing
  <2>7. job' = [j EXCEPT !.g = f.g, !.rev = f.rev]
    BY <1>5, <2>5
  <2>8. Writer(job')
    BY <2>6, <2>7 DEF Writer, IsAct
  <2>9. QED BY <1>1, <2>4, <2>8, WriterLaw, StillLaw DEF LawInv
<1>6. QED BY <1>2, <1>3, <1>4, <1>5 DEF Follow

LEMMA StagesLaw ==
  ASSUME LawInv, PollAnswer => bridge.answer # None, Stages
  PROVE  LawInv'
<1>1. CASE DropTyping
  <2>1. Still /\ UNCHANGED job /\ (UNCHANGED bridge \/ bridge' = [bridge EXCEPT !.typing = None])
    BY <1>1 DEF DropTyping, Stage
  <2>2. LawBridge(bridge)'
    BY <2>1 DEF LawInv, LawBridge, IsBridge, IsAnswer
  <2>3. QED BY <2>1, <2>2, SameLaw, StillLaw DEF LawInv
<1>2. CASE DashboardOver
  <2>1. Still /\ UNCHANGED <<bridge, job>>
    BY <1>2 DEF DashboardOver, Stage
  <2>2. QED BY <2>1, SameLaw, StillLaw DEF LawInv
<1>3. CASE \E g \in Grants : Notice(g)
  <2>1. Still /\ UNCHANGED <<bridge, job>>
    BY <1>3 DEF Notice, Stage
  <2>2. QED BY <2>1, SameLaw, StillLaw DEF LawInv
<1>4. CASE \E g \in Grants : Dashboard(g)
  <2>1. PICK g \in Grants : Dashboard(g)
    BY <1>4
  <2>2. Still /\ UNCHANGED bridge /\ (UNCHANGED job \/ job' = [do |-> "service", g |-> g, content |-> Content(g)])
    BY <2>1 DEF Dashboard, Stage
  <2>3. LawJob(job)'
    BY <2>2, SameLaw DEF LawJob, Acting
  <2>4. QED BY <2>2, <2>3, SameLaw, StillLaw DEF LawInv
<1>5. CASE \E a \in bridge.albums : SendAlbum(a)
  <2>1. PICK a \in bridge.albums : SendAlbum(a)
    BY <1>5
  <2>2. Still /\ UNCHANGED job /\ bridge' = [bridge EXCEPT !.albums = @ \ {a}]
    BY <2>1 DEF SendAlbum, Stage
  <2>3. LawBridge(bridge)'
    BY <2>2 DEF LawInv, LawBridge, IsBridge, IsAnswer
  <2>4. QED BY <2>2, <2>3, SameLaw, StillLaw DEF LawInv
<1>6. QED BY <1>1, <1>2, <1>3, <1>4, <1>5, PollAnswerLaw, OutputLaw, FollowLaw DEF Stages

LEMMA WorldLaw ==
  ASSUME LawInv, World
  PROVE  LawInv'
<1>1. CASE Asks \/ TurnEnds \/ Focuses \/ DeskAnswers \/ DeskPrompts \/ Exits \/ Repeats \/ Switch
           \/ \E g \in Grants : OwnerDenies(g) \/ OwnerGrants(g)
  <2>1. Still /\ UNCHANGED <<bridge, job>>
    BY <1>1 DEF Asks, TurnEnds, Focuses, DeskAnswers, DeskPrompts, Exits, Repeats, Switch, OwnerDenies, OwnerGrants, Agent
  <2>2. QED BY <2>1, SameLaw, StillLaw DEF LawInv
<1>2. CASE OwnerActs
  <2>1. Still /\ UNCHANGED job /\ bridge' = Invalidated(bridge)
    BY <1>2 DEF OwnerActs
  <2>2. PICK c : c = Invalidated(bridge)
    OBVIOUS
  <2>3. LawBridge(c)
    BY <2>2, InvalidatedLaw DEF LawInv
  <2>4. LawBridge(bridge)'
    BY <2>1, <2>2, <2>3 DEF LawBridge, IsBridge, IsAnswer
  <2>5. QED BY <2>1, <2>4, SameLaw, StillLaw DEF LawInv
<1>3. CASE Restart
  <2>1. Still /\ job' = None /\ bridge' = Fresh(pane.status = "working")
    BY <1>3 DEF Restart
  <2>2. LawBridge(bridge)'
    BY <2>1 DEF LawBridge, IsBridge, Fresh
  <2>3. QED BY <2>1, <2>2, NoJobLaw, StillLaw DEF LawInv
<1>4. QED BY <1>1, <1>2, <1>3 DEF World

LEMMA ObserveLaw ==
  ASSUME LawInv, Observe
  PROVE  LawInv'
<1>1. Still /\ UNCHANGED job
  BY DEF Observe
<1>2. PICK c : c = Observed(bridge, Head(news).kind, Head(news).status, Head(news).seq)
  OBVIOUS
<1>3. LawBridge(c)
  BY <1>2, ObservedLaw DEF LawInv
<1>4. LawBridge(bridge)'
  BY <1>2, <1>3 DEF Observe, LawBridge, IsBridge, IsAnswer
<1>5. QED BY <1>1, <1>4, SameLaw, StillLaw DEF LawInv
---------------------------------------------------------------------------
(* Where a message is while it has not come to its end.                    *)
Places == [queue |-> queue, job |-> job, answer |-> bridge.answer, albums |-> bridge.albums, moving |-> moving]

InQueue(m, s) == \E i \in 1..Len(s.queue) : s.queue[i] = m
AtJob(m, s) == Acting(s.job) /\ s.job.m = m
InAnswer(m, s) == s.answer # None /\ s.answer.m = m
InAlbum(m, s) == \E a \in s.albums : a.m = m
IsMoving(m, s) == \E t \in s.moving : t.m = m

QueuedOnce(m, s) == \A i, k \in 1..Len(s.queue) : s.queue[i] = m /\ s.queue[k] = m => i = k
InOneAlbum(m, s) == \A a, c \in s.albums : a.m = m /\ c.m = m => a = c
MovesOnce(m, s) == \A t, u \in s.moving : t.m = m /\ u.m = m => t = u
OnlyGit(m, s) == \A t \in s.moving : t.m = m => t.kind = "git"

Alone(m, s) ==
  /\ QueuedOnce(m, s) /\ InOneAlbum(m, s) /\ MovesOnce(m, s)
  /\ ~(InQueue(m, s) /\ (AtJob(m, s) \/ InAnswer(m, s) \/ InAlbum(m, s) \/ IsMoving(m, s)))
  /\ ~(AtJob(m, s) /\ (InAnswer(m, s) \/ InAlbum(m, s) \/ IsMoving(m, s)))
  /\ ~(InAnswer(m, s) /\ (InAlbum(m, s) \/ IsMoving(m, s)))
  /\ ~(InAlbum(m, s) /\ IsMoving(m, s))
Somewhere(m, s) == InQueue(m, s) \/ AtJob(m, s) \/ InAnswer(m, s) \/ InAlbum(m, s) \/ IsMoving(m, s)

Placed(r, m, s) ==
  /\ r.acts \in {0, 1}
  /\ r.old => ~AtJob(m, s) /\ ~InAnswer(m, s) /\ ~InAlbum(m, s) /\ OnlyGit(m, s)
  /\ ~r.old => /\ Alone(m, s)
               /\ Somewhere(m, s) => r.acts = 0 /\ r.fate # "sent"
               /\ r.fate = "sent" => r.acts = 0

(* No place holds a message that has not been written.                     *)
IsMove(t) == t = [m |-> t.m, g |-> t.g, rev |-> t.rev, kind |-> t.kind, at |-> t.at]
IsAlbum(a) == a = [g |-> a.g, rev |-> a.rev, m |-> a.m]
Shaped(s, n) ==
  /\ Acting(s.job) => s.job.m \in 0..n
  /\ s.answer # None => s.answer.m \in 0..n
  /\ \A a \in s.albums : IsAlbum(a) /\ a.m \in 1..n
  /\ \A t \in s.moving : IsMove(t) /\ t.m \in 1..n

OnceInv == Shaped(Places, Len(msg)) /\ \A m \in 1..Len(msg) : Placed(msg[m], m, Places)

---------------------------------------------------------------------------
(* A message that is left alone, or taken from where it was.               *)
LessQueued(m, s, s2) == (InQueue(m, s2) => InQueue(m, s)) /\ (QueuedOnce(m, s) => QueuedOnce(m, s2))
LessMoving(m, s, s2) ==
  /\ IsMoving(m, s2) => IsMoving(m, s)
  /\ MovesOnce(m, s) => MovesOnce(m, s2)
  /\ OnlyGit(m, s) => OnlyGit(m, s2)
LessAlbums(m, s, s2) == (InAlbum(m, s2) => InAlbum(m, s)) /\ (InOneAlbum(m, s) => InOneAlbum(m, s2))
Less(m, s, s2) ==
  /\ LessQueued(m, s, s2) /\ LessMoving(m, s, s2) /\ LessAlbums(m, s, s2)
  /\ AtJob(m, s2) => AtJob(m, s)
  /\ InAnswer(m, s2) => InAnswer(m, s)
LeftAs(r, r2) == r2.acts = r.acts /\ r2.old = r.old /\ (r2.fate = "sent" => r.fate = "sent")

LEMMA PlacedLess ==
  ASSUME NEW r, NEW r2, NEW m, NEW s, NEW s2, Placed(r, m, s), LeftAs(r, r2), Less(m, s, s2)
  PROVE  Placed(r2, m, s2)
BY DEF Placed, LeftAs, Less, LessQueued, LessMoving, LessAlbums, Alone, Somewhere

LEMMA QueueStays ==
  ASSUME NEW s, NEW s2, s2.queue = s.queue
  PROVE  \A m : LessQueued(m, s, s2)
BY DEF LessQueued, InQueue, QueuedOnce

LEMMA QueueTail ==
  ASSUME NEW s, NEW s2, s.queue \in Seq(Nat), s.queue # <<>>, s2.queue = Tail(s.queue)
  PROVE  /\ \A m : LessQueued(m, s, s2)
         /\ InQueue(Head(s.queue), s)
         /\ QueuedOnce(Head(s.queue), s) => ~InQueue(Head(s.queue), s2)
<1>1. PICK q, t : q = s.queue /\ t = s2.queue
  OBVIOUS
<1>2. /\ Len(q) \in Nat /\ Len(q) # 0 /\ Len(t) = Len(q) - 1 /\ Head(q) = q[1] /\ \A i \in 1..Len(t) : t[i] = q[i + 1]
  BY <1>1
<1>3. \A i \in 1..Len(t) : i + 1 \in 1..Len(q) /\ i + 1 # 1 /\ i \in Nat
  BY <1>2
<1>4. 1 \in 1..Len(q)
  BY <1>2
<1>5. \A m : InQueue(m, s2) => InQueue(m, s)
  BY <1>1, <1>2, <1>3 DEF InQueue
<1>6. \A m : QueuedOnce(m, s) => QueuedOnce(m, s2)
  <2>1. SUFFICES ASSUME NEW m, QueuedOnce(m, s), NEW i \in 1..Len(t), NEW k \in 1..Len(t), t[i] = m, t[k] = m
                 PROVE  i = k
    BY <1>1 DEF QueuedOnce
  <2>2. i + 1 = k + 1
    BY <1>1, <1>2, <1>3, <2>1 DEF QueuedOnce
  <2>3. QED BY <1>3, <2>2
<1>7. InQueue(Head(q), s)
  BY <1>1, <1>2, <1>4 DEF InQueue
<1>8. QueuedOnce(Head(q), s) => ~InQueue(Head(q), s2)
  BY <1>1, <1>2, <1>3, <1>4 DEF InQueue, QueuedOnce
<1>9. QED BY <1>1, <1>5, <1>6, <1>7, <1>8 DEF LessQueued

LEMMA QueueGone ==
  ASSUME NEW s, NEW s2, s2.queue = <<>>
  PROVE  \A m : LessQueued(m, s, s2)
BY DEF LessQueued, InQueue, QueuedOnce

LEMMA AlbumsLess ==
  ASSUME NEW s, NEW s2, s2.albums \subseteq s.albums
  PROVE  \A m : LessAlbums(m, s, s2)
BY DEF LessAlbums, InAlbum, InOneAlbum

LEMMA MovingLess ==
  ASSUME NEW s, NEW s2, s2.moving \subseteq s.moving
  PROVE  \A m : LessMoving(m, s, s2)
BY DEF LessMoving, IsMoving, MovesOnce, OnlyGit

LEMMA MovingOn ==
  ASSUME NEW s, NEW s2, NEW t \in s.moving, NEW u, u.m = t.m, u.kind = t.kind,
         s2.moving = (s.moving \ {t}) \cup {u}
  PROVE  \A m : LessMoving(m, s, s2)
BY DEF LessMoving, IsMoving, MovesOnce, OnlyGit
---------------------------------------------------------------------------
(* What is told of a message leaves it as it is, but for its fate.         *)

LEMMA EndsLeft ==
  ASSUME Written(msg), NEW ms, NEW fate, fate # "sent", Ends(ms, fate)
  PROVE  \A m \in 1..Len(msg) : LeftAs(msg[m], msg'[m])
<1>1. SUFFICES ASSUME NEW m \in 1..Len(msg)
               PROVE  LeftAs(msg[m], msg'[m])
  OBVIOUS
<1>2. PICK r, k : r = msg[m] /\ k = msg'[m]
  OBVIOUS
<1>3. m \in DOMAIN msg /\ IsMsg(r)
  BY <1>2 DEF Written, IsSeq
<1>4. k = r \/ k = [r EXCEPT !.fate = fate]
  BY <1>2, <1>3 DEF Ends
<1>5. LeftAs(r, k)
  BY <1>3, <1>4 DEF IsMsg, LeftAs
<1>6. QED BY <1>2, <1>5

LEMMA ActedLeft ==
  ASSUME Written(msg), NEW n \in 1..Len(msg), NEW fate, fate # "sent", EndsActed(n, fate)
  PROVE  /\ \A m \in 1..Len(msg) : m # n => LeftAs(msg[m], msg'[m])
         /\ msg'[n].acts = msg[n].acts + 1 /\ msg'[n].old = msg[n].old /\ msg'[n].fate = fate
<1>1. DOMAIN msg = 1..Len(msg)
  BY DEF Written, IsSeq
<1>2. \A m \in 1..Len(msg) : m # n => msg'[m] = msg[m]
  BY <1>1 DEF EndsActed
<1>3. PICK r, k : r = msg[n] /\ k = msg'[n]
  OBVIOUS
<1>4. IsMsg(r) /\ k = [r EXCEPT !.fate = fate, !.acts = r.acts + 1]
  BY <1>1, <1>3 DEF Written, EndsActed
<1>5. k.acts = r.acts + 1 /\ k.old = r.old /\ k.fate = fate
  BY <1>4 DEF IsMsg
<1>6. QED BY <1>2, <1>3, <1>5 DEF LeftAs

LEMMA ConfirmLeft ==
  ASSUME Written(msg), Confirm
  PROVE  \A m \in 1..Len(msg) : LeftAs(msg[m], msg'[m])
<1>1. SUFFICES ASSUME NEW m \in 1..Len(msg)
               PROVE  LeftAs(msg[m], msg'[m])
  OBVIOUS
<1>2. PICK r, k : r = msg[m] /\ k = msg'[m]
  OBVIOUS
<1>3. m \in DOMAIN msg /\ IsMsg(r)
  BY <1>2 DEF Written, IsSeq
<1>4. k = r \/ k = [r EXCEPT !.held = FALSE]
  BY <1>2, <1>3 DEF Confirm
<1>5. LeftAs(r, k)
  BY <1>3, <1>4 DEF IsMsg, LeftAs
<1>6. QED BY <1>2, <1>5

LEMMA SameLeft ==
  ASSUME UNCHANGED msg
  PROVE  \A m \in 1..Len(msg) : LeftAs(msg[m], msg'[m])
BY DEF LeftAs

(* The invariant of the next state, from what the places are then.         *)
LEMMA OnceNext ==
  ASSUME NEW s2, s2 = Places', Shaped(s2, Len(msg')), \A m \in 1..Len(msg') : Placed(msg'[m], m, s2)
  PROVE  OnceInv'
<1>1. s2 = [queue |-> queue', job |-> job', answer |-> bridge'.answer, albums |-> bridge'.albums, moving |-> moving']
  BY DEF Places
<1>2. Shaped(Places, Len(msg))'
  BY <1>1 DEF Shaped, Places, Acting, IsAlbum, IsMove
<1>3. (\A m \in 1..Len(msg) : Placed(msg[m], m, Places))'
  BY <1>1 DEF Placed, Places, Alone, Somewhere, InQueue, AtJob, InAnswer, InAlbum, IsMoving,
     QueuedOnce, InOneAlbum, MovesOnce, OnlyGit, Acting
<1>4. QED BY <1>2, <1>3 DEF OnceInv

LEMMA QuietOnce ==
  ASSUME OnceInv, Len(msg') = Len(msg), \A m \in 1..Len(msg) : LeftAs(msg[m], msg'[m]),
         NEW s2, s2 = Places', Shaped(s2, Len(msg)), \A m \in 1..Len(msg) : Less(m, Places, s2)
  PROVE  OnceInv'
<1>1. \A m \in 1..Len(msg') : Placed(msg'[m], m, s2)
  BY PlacedLess DEF OnceInv
<1>2. QED BY <1>1, OnceNext
---------------------------------------------------------------------------
(* Steps that put no message anywhere.                                     *)
TalkInv == MsgInv /\ OnceInv

Tells == (\E ms, fate : fate # "sent" /\ Ends(ms, fate)) \/ Confirm \/ UNCHANGED msg

LEMMA TellsLeft ==
  ASSUME Written(msg), Tells
  PROVE  /\ Written(msg)' /\ Len(msg)' = Len(msg)
         /\ \A m \in 1..Len(msg) : LeftAs(msg[m], msg'[m])
<1>1. CASE \E ms, fate : fate # "sent" /\ Ends(ms, fate)
  BY <1>1, EndsWritten, EndsLeft
<1>2. CASE Confirm
  BY <1>2, ConfirmWritten, ConfirmLeft
<1>3. CASE UNCHANGED msg
  BY <1>3, SameWritten, SameLeft
<1>4. QED BY <1>1, <1>2, <1>3 DEF Tells

QueueQuiet == UNCHANGED queue \/ (queue # <<>> /\ queue' = Tail(queue)) \/ queue' = <<>>
JobQuiet == Acting(job') => job'.m = 0 \/ (Acting(job) /\ job'.m = job.m)
AnswerQuiet == bridge'.answer # None => bridge'.answer.m = 0 \/ (bridge.answer # None /\ bridge'.answer.m = bridge.answer.m)
MovingQuiet ==
  \/ moving' \subseteq moving
  \/ \E t \in moving : \E u : IsMove(u) /\ u.m = t.m /\ u.kind = t.kind /\ moving' = (moving \ {t}) \cup {u}

LEMMA QuietTalk ==
  ASSUME TalkInv, Tells, QueueQuiet, JobQuiet, AnswerQuiet, MovingQuiet, bridge'.albums \subseteq bridge.albums
  PROVE  TalkInv'
<1>1. PICK s2 : s2 = Places'
  OBVIOUS
<1>2. s2.queue = queue' /\ s2.job = job' /\ s2.answer = bridge'.answer /\ s2.albums = bridge'.albums /\ s2.moving = moving'
  BY <1>1 DEF Places
<1>3. PICK s : s = Places
  OBVIOUS
<1>4. s.queue = queue /\ s.job = job /\ s.answer = bridge.answer /\ s.albums = bridge.albums /\ s.moving = moving
  BY <1>3 DEF Places
<1>5. Written(msg) /\ Waiting(queue, Len(msg)) /\ Shaped(s, Len(msg))
  BY <1>3 DEF TalkInv, MsgInv, OnceInv
<1>6. /\ Written(msg)' /\ Len(msg)' = Len(msg)
      /\ \A m \in 1..Len(msg) : LeftAs(msg[m], msg'[m])
  BY <1>5, TellsLeft
<1>7. \A m : LessQueued(m, s, s2)
  <2>1. CASE queue' = queue
    BY <1>2, <1>4, <2>1, QueueStays
  <2>2. CASE queue # <<>> /\ queue' = Tail(queue)
    <3>1. queue \in Seq(Nat)
      BY <1>5 DEF Waiting
    <3>2. QED BY <1>2, <1>4, <2>2, <3>1, QueueTail
  <2>3. CASE queue' = <<>>
    BY <1>2, <2>3, QueueGone
  <2>4. QED BY <2>1, <2>2, <2>3 DEF QueueQuiet
<1>8. \A m : LessMoving(m, s, s2)
  <2>1. CASE moving' \subseteq moving
    BY <1>2, <1>4, <2>1, MovingLess
  <2>2. CASE \E t \in moving : \E u : IsMove(u) /\ u.m = t.m /\ u.kind = t.kind /\ moving' = (moving \ {t}) \cup {u}
    <3>1. PICK t, u : t \in s.moving /\ u.m = t.m /\ u.kind = t.kind /\ s2.moving = (s.moving \ {t}) \cup {u}
      BY <1>2, <1>4, <2>2
    <3>2. QED BY <3>1, MovingOn
  <2>3. QED BY <2>1, <2>2 DEF MovingQuiet
<1>9. Len(msg) \in Nat
  BY <1>5 DEF Written, IsSeq
<1>10. \A m \in 1..Len(msg) : Less(m, s, s2)
  <2>1. SUFFICES ASSUME NEW m \in 1..Len(msg)
                 PROVE  Less(m, s, s2)
    OBVIOUS
  <2>2. m # 0
    BY <1>9
  <2>3. AtJob(m, s2) => AtJob(m, s)
    BY <1>2, <1>4, <2>2 DEF JobQuiet, AtJob
  <2>4. InAnswer(m, s2) => InAnswer(m, s)
    BY <1>2, <1>4, <2>2 DEF AnswerQuiet, InAnswer
  <2>5. LessAlbums(m, s, s2)
    BY <1>2, <1>4, AlbumsLess
  <2>6. QED BY <1>7, <1>8, <2>3, <2>4, <2>5 DEF Less
<1>11. Shaped(s2, Len(msg))
  <2>1. Acting(s2.job) => s2.job.m \in 0..Len(msg)
    BY <1>2, <1>4, <1>5, <1>9 DEF JobQuiet, Shaped
  <2>2. s2.answer # None => s2.answer.m \in 0..Len(msg)
    BY <1>2, <1>4, <1>5, <1>9 DEF AnswerQuiet, Shaped
  <2>3. \A a \in s2.albums : IsAlbum(a) /\ a.m \in 1..Len(msg)
    BY <1>2, <1>4, <1>5 DEF Shaped
  <2>4. \A t \in s2.moving : IsMove(t) /\ t.m \in 1..Len(msg)
    BY <1>2, <1>4, <1>5 DEF MovingQuiet, Shaped
  <2>5. QED BY <2>1, <2>2, <2>3, <2>4 DEF Shaped
<1>12. OnceInv'
  BY <1>1, <1>3, <1>6, <1>10, <1>11, QuietOnce DEF TalkInv
<1>13. MsgInv'
  BY <1>6, ToldInv DEF QueueQuiet, TalkInv
<1>14. QED BY <1>12, <1>13 DEF TalkInv
---------------------------------------------------------------------------
(* Steps that move one message, and leave the others.                      *)

LEMMA MovesTalk ==
  ASSUME TalkInv, QueueQuiet, Written(msg)', Len(msg)' = Len(msg), NEW n,
         \A m \in 1..Len(msg) : m # n => LeftAs(msg[m], msg'[m]),
         NEW s2, s2 = Places', Shaped(s2, Len(msg)),
         \A m \in 1..Len(msg) : m # n => Less(m, Places, s2),
         n \in 1..Len(msg) => Placed(msg'[n], n, s2)
  PROVE  TalkInv'
<1>1. \A m \in 1..Len(msg') : Placed(msg'[m], m, s2)
  BY PlacedLess DEF OnceInv, TalkInv
<1>2. OnceInv'
  BY <1>1, OnceNext
<1>3. MsgInv'
  BY ToldInv DEF TalkInv, QueueQuiet
<1>4. QED BY <1>2, <1>3 DEF TalkInv

(* A job that acts does so once for its message, and is over.              *)
LEMMA ActedTalk ==
  ASSUME TalkInv, Acting(job), job' = None, NEW fate, fate # "sent", EndsActed(job.m, fate),
         UNCHANGED <<queue, moving>>, bridge'.answer = bridge.answer, bridge'.albums = bridge.albums
  PROVE  TalkInv'
<1>1. PICK s, s2, n : s = Places /\ s2 = Places' /\ n = job.m
  OBVIOUS
<1>2. s2.queue = queue /\ s2.job = None /\ s2.answer = bridge.answer /\ s2.albums = bridge.albums /\ s2.moving = moving
  BY <1>1 DEF Places
<1>3. s.queue = queue /\ s.job = job /\ s.answer = bridge.answer /\ s.albums = bridge.albums /\ s.moving = moving
  BY <1>1 DEF Places
<1>4. Written(msg) /\ Shaped(s, Len(msg))
  BY <1>1 DEF TalkInv, MsgInv, OnceInv
<1>5. Written(msg)' /\ Len(msg)' = Len(msg)
  BY <1>4, ActedWritten
<1>6. n \in 0..Len(msg) /\ Len(msg) \in Nat
  BY <1>1, <1>3, <1>4 DEF Shaped, Written, IsSeq
<1>7. \A m : Less(m, s, s2)
  <2>1. \A m : LessQueued(m, s, s2)
    BY <1>2, <1>3, QueueStays
  <2>2. \A m : LessMoving(m, s, s2)
    BY <1>2, <1>3, MovingLess
  <2>3. \A m : LessAlbums(m, s, s2)
    BY <1>2, <1>3, AlbumsLess
  <2>4. \A m : ~AtJob(m, s2) /\ (InAnswer(m, s2) => InAnswer(m, s))
    BY <1>2, <1>3 DEF AtJob, InAnswer, Acting
  <2>5. QED BY <2>1, <2>2, <2>3, <2>4 DEF Less
<1>8. Shaped(s2, Len(msg))
  BY <1>2, <1>3, <1>4 DEF Shaped, Acting
<1>9. \A m \in 1..Len(msg) : m # n => LeftAs(msg[m], msg'[m])
  <2>1. CASE n = 0
    <3>1. DOMAIN msg = 1..Len(msg)
      BY <1>4 DEF Written, IsSeq
    <3>2. \A m \in 1..Len(msg) : m # job.m
      BY <1>1, <1>6, <2>1
    <3>3. \A m \in 1..Len(msg) : msg'[m] = msg[m]
      BY <3>1, <3>2 DEF EndsActed
    <3>4. QED BY <3>3 DEF LeftAs
  <2>2. CASE n \in 1..Len(msg)
    BY <1>1, <1>4, <2>2, ActedLeft
  <2>3. QED BY <1>6, <2>1, <2>2
<1>10. ASSUME n \in 1..Len(msg)
       PROVE  Placed(msg'[n], n, s2)
  <2>1. PICK r, k : r = msg[n] /\ k = msg'[n]
    OBVIOUS
  <2>2. Placed(r, n, s) /\ AtJob(n, s)
    BY <1>1, <1>3, <1>10, <2>1 DEF TalkInv, OnceInv, AtJob
  <2>3. k.acts = r.acts + 1 /\ k.old = r.old /\ k.fate = fate
    BY <1>1, <1>4, <1>10, <2>1, ActedLeft
  <2>4. ~r.old /\ r.acts = 0 /\ Alone(n, s)
    BY <2>2 DEF Placed, Somewhere
  <2>5. k.acts = 1 /\ ~k.old /\ k.fate # "sent"
    BY <2>3, <2>4
  <2>6. Less(n, s, s2) /\ ~AtJob(n, s2)
    BY <1>2, <1>7 DEF AtJob, Acting
  <2>7. Alone(n, s2) /\ ~Somewhere(n, s2)
    BY <2>2, <2>4, <2>6 DEF Less, LessQueued, LessMoving, LessAlbums, Alone, Somewhere
  <2>8. Placed(k, n, s2)
    BY <2>5, <2>7 DEF Placed
  <2>9. QED BY <2>1, <2>8
<1>11. QueueQuiet
  BY DEF QueueQuiet
<1>12. QED BY <1>1, <1>5, <1>7, <1>8, <1>9, <1>10, <1>11, MovesTalk

(* A job whose answer waits for the entry.                                 *)
LEMMA FocusTalk ==
  ASSUME LawInv, TalkInv, FocusEntry
  PROVE  TalkInv'
<1>1. PICK s, s2, n : s = Places /\ s2 = Places' /\ n = job.m
  OBVIOUS
<1>2. /\ Acting(job) /\ job' = None /\ UNCHANGED <<queue, moving, msg>>
      /\ bridge' = [bridge EXCEPT !.answer = [g |-> job.g, rev |-> job.rev, m |-> n, action |-> job.action, question |-> job.meant, polls |-> 0]]
  BY <1>1 DEF FocusEntry, Job, Acting
<1>3. bridge'.answer.m = n /\ bridge'.albums = bridge.albums
  BY <1>2 DEF LawInv, LawBridge, IsBridge
<1>4. s2.queue = queue /\ s2.job = None /\ s2.answer.m = n /\ s2.albums = bridge.albums /\ s2.moving = moving
  BY <1>1, <1>2, <1>3 DEF Places
<1>5. s.queue = queue /\ s.job = job /\ s.albums = bridge.albums /\ s.moving = moving
  BY <1>1 DEF Places
<1>6. Written(msg) /\ Shaped(s, Len(msg))
  BY <1>1 DEF TalkInv, MsgInv, OnceInv
<1>7. n \in 0..Len(msg)
  BY <1>1, <1>2, <1>5, <1>6 DEF Shaped
<1>8. \A m : LessQueued(m, s, s2) /\ LessMoving(m, s, s2) /\ LessAlbums(m, s, s2) /\ ~AtJob(m, s2)
  <2>1. \A m : LessQueued(m, s, s2)
    BY <1>4, <1>5, QueueStays
  <2>2. \A m : LessMoving(m, s, s2)
    BY <1>4, <1>5, MovingLess
  <2>3. \A m : LessAlbums(m, s, s2)
    BY <1>4, <1>5, AlbumsLess
  <2>4. \A m : ~AtJob(m, s2)
    BY <1>4 DEF AtJob, Acting
  <2>5. QED BY <2>1, <2>2, <2>3, <2>4
<1>9. \A m \in 1..Len(msg) : m # n => Less(m, s, s2)
  BY <1>4, <1>8 DEF Less, InAnswer
<1>10. Shaped(s2, Len(msg))
  BY <1>4, <1>5, <1>6, <1>7 DEF Shaped, Acting
<1>11. ASSUME n \in 1..Len(msg)
       PROVE  Placed(msg'[n], n, s2)
  <2>1. PICK r : r = msg[n] /\ r = msg'[n]
    BY <1>2
  <2>2. Placed(r, n, s) /\ AtJob(n, s)
    BY <1>1, <1>2, <1>5, <1>11, <2>1 DEF TalkInv, OnceInv, AtJob
  <2>3. ~r.old /\ r.acts = 0 /\ r.fate # "sent" /\ Alone(n, s)
    BY <2>2 DEF Placed, Somewhere
  <2>4. Alone(n, s2)
    BY <1>8, <2>2, <2>3 DEF LessQueued, LessMoving, LessAlbums, Alone
  <2>5. Placed(r, n, s2)
    BY <2>3, <2>4 DEF Placed
  <2>6. QED BY <2>1, <2>5
<1>12. QueueQuiet /\ Written(msg)' /\ Len(msg)' = Len(msg) /\ \A m \in 1..Len(msg) : LeftAs(msg[m], msg'[m])
  BY <1>2, <1>6, SameWritten, SameLeft DEF QueueQuiet
<1>13. QED BY <1>1, <1>9, <1>10, <1>11, <1>12, MovesTalk

(* An answer that is typed.                                                *)
LEMMA TypingTalk ==
  ASSUME LawInv, TalkInv, bridge.answer # None, UNCHANGED <<queue, moving, msg>>,
         bridge' = [bridge EXCEPT !.answer = None], job' = Typing(bridge.answer)
  PROVE  TalkInv'
<1>1. PICK s, s2, n : s = Places /\ s2 = Places' /\ n = bridge.answer.m
  OBVIOUS
<1>2. bridge'.answer = None /\ bridge'.albums = bridge.albums
  BY DEF LawInv, LawBridge, IsBridge
<1>3. job'.m = n
  <2>1. PICK a, j : a = bridge.answer /\ j = Act("type", a.action, a.question)
    OBVIOUS
  <2>2. IsAct(j) /\ job' = [j EXCEPT !.m = n, !.g = a.g, !.rev = a.rev]
    BY <1>1, <2>1, ActLaw DEF Typing
  <2>3. QED BY <2>2 DEF IsAct
<1>4. s2.queue = queue /\ s2.job = job' /\ s2.answer = None /\ s2.albums = bridge.albums /\ s2.moving = moving
  BY <1>1, <1>2 DEF Places
<1>5. s.queue = queue /\ s.answer = bridge.answer /\ s.albums = bridge.albums /\ s.moving = moving
  BY <1>1 DEF Places
<1>6. Written(msg) /\ Shaped(s, Len(msg))
  BY <1>1 DEF TalkInv, MsgInv, OnceInv
<1>7. n \in 0..Len(msg)
  BY <1>1, <1>5, <1>6 DEF Shaped
<1>8. \A m : LessQueued(m, s, s2) /\ LessMoving(m, s, s2) /\ LessAlbums(m, s, s2) /\ ~InAnswer(m, s2)
  <2>1. \A m : LessQueued(m, s, s2)
    BY <1>4, <1>5, QueueStays
  <2>2. \A m : LessMoving(m, s, s2)
    BY <1>4, <1>5, MovingLess
  <2>3. \A m : LessAlbums(m, s, s2)
    BY <1>4, <1>5, AlbumsLess
  <2>4. \A m : ~InAnswer(m, s2)
    BY <1>4 DEF InAnswer
  <2>5. QED BY <2>1, <2>2, <2>3, <2>4
<1>9. \A m \in 1..Len(msg) : m # n => Less(m, s, s2)
  BY <1>3, <1>4, <1>8 DEF Less, AtJob
<1>10. Shaped(s2, Len(msg))
  BY <1>3, <1>4, <1>5, <1>6, <1>7 DEF Shaped
<1>11. ASSUME n \in 1..Len(msg)
       PROVE  Placed(msg'[n], n, s2)
  <2>1. PICK r : r = msg[n] /\ r = msg'[n]
    OBVIOUS
  <2>2. Placed(r, n, s) /\ InAnswer(n, s)
    BY <1>1, <1>5, <1>11, <2>1 DEF TalkInv, OnceInv, InAnswer
  <2>3. ~r.old /\ r.acts = 0 /\ r.fate # "sent" /\ Alone(n, s)
    BY <2>2 DEF Placed, Somewhere
  <2>4. Alone(n, s2)
    BY <1>8, <2>2, <2>3 DEF LessQueued, LessMoving, LessAlbums, Alone
  <2>5. Placed(r, n, s2)
    BY <2>3, <2>4 DEF Placed
  <2>6. QED BY <2>1, <2>5
<1>12. QueueQuiet /\ Written(msg)' /\ Len(msg)' = Len(msg) /\ \A m \in 1..Len(msg) : LeftAs(msg[m], msg'[m])
  BY <1>6, SameWritten, SameLeft DEF QueueQuiet
<1>13. QED BY <1>1, <1>9, <1>10, <1>11, <1>12, MovesTalk

(* A message of the queue, or one that was fetched, becomes a job.         *)
LEMMA StartedJob ==
  ASSUME LawInv, NEW m, NEW g, NEW rev, NEW next, Writer(next), Starts(m, g, rev, next), Begin(g, rev, next.action)
  PROVE  /\ bridge'.answer = None /\ bridge'.albums = bridge.albums /\ job'.m = m
         /\ \E ms : Ends(ms, "dropped")
<1>1. bridge' = Invalidated(bridge) /\ job' = [next EXCEPT !.m = m, !.g = g, !.rev = rev] /\ Ends(Dropped, "dropped")
  BY DEF Starts
<1>2. bridge'.answer = None /\ bridge'.albums = bridge.albums
  BY <1>1, InvalidatedBridge DEF LawInv, LawBridge
<1>3. job'.m = m
  BY <1>1 DEF Writer, IsAct
<1>4. QED BY <1>1, <1>2, <1>3

LEMMA DeniedStart ==
  ASSUME TalkInv, QueueQuiet, moving' \subseteq moving, NEW m, NEW g, NEW rev, NEW next,
         Starts(m, g, rev, next), ~Begin(g, rev, next.action)
  PROVE  TalkInv'
<1>1. Ends({m}, "denied") /\ UNCHANGED <<bridge, job>>
  BY DEF Starts
<1>2. Tells /\ JobQuiet /\ AnswerQuiet /\ MovingQuiet /\ bridge'.albums \subseteq bridge.albums
  BY <1>1 DEF Tells, JobQuiet, AnswerQuiet, MovingQuiet
<1>3. QED BY <1>2, QuietTalk

LEMMA QueuedStarts ==
  ASSUME LawInv, TalkInv, queue # <<>>, queue' = Tail(queue), UNCHANGED moving, NEW n, n = Head(queue), ~msg[n].old,
         NEW g, NEW rev, NEW next, Writer(next), Starts(n, g, rev, next)
  PROVE  TalkInv'
<1>1. CASE ~Begin(g, rev, next.action)
  BY <1>1, DeniedStart DEF QueueQuiet
<1>2. CASE Begin(g, rev, next.action)
  <2>1. /\ bridge'.answer = None /\ bridge'.albums = bridge.albums /\ job'.m = n
        /\ \E ms : Ends(ms, "dropped")
    BY <1>2, StartedJob
  <2>2. PICK s, s2 : s = Places /\ s2 = Places'
    OBVIOUS
  <2>3. s2.queue = Tail(queue) /\ s2.job = job' /\ s2.answer = None /\ s2.albums = bridge.albums /\ s2.moving = moving
    BY <2>1, <2>2 DEF Places
  <2>4. s.queue = queue /\ s.albums = bridge.albums /\ s.moving = moving
    BY <2>2 DEF Places
  <2>5. Written(msg) /\ Waiting(queue, Len(msg)) /\ Shaped(s, Len(msg))
    BY <2>2 DEF TalkInv, MsgInv, OnceInv
  <2>6. queue \in Seq(Nat) /\ n \in 1..Len(msg)
    BY <2>5, HandledMessage DEF Waiting, TalkInv
  <2>7. /\ \A m : LessQueued(m, s, s2)
        /\ InQueue(n, s) /\ (QueuedOnce(n, s) => ~InQueue(n, s2))
    BY <2>3, <2>4, <2>6, QueueTail
  <2>8. \A m : LessMoving(m, s, s2) /\ LessAlbums(m, s, s2) /\ ~InAnswer(m, s2)
    <3>1. \A m : LessMoving(m, s, s2)
      BY <2>3, <2>4, MovingLess
    <3>2. \A m : LessAlbums(m, s, s2)
      BY <2>3, <2>4, AlbumsLess
    <3>3. \A m : ~InAnswer(m, s2)
      BY <2>3 DEF InAnswer
    <3>4. QED BY <3>1, <3>2, <3>3
  <2>9. \A m \in 1..Len(msg) : m # n => Less(m, s, s2)
    BY <2>1, <2>3, <2>7, <2>8 DEF Less, AtJob
  <2>10. Shaped(s2, Len(msg))
    <3>1. n \in 0..Len(msg)
      BY <2>6
    <3>2. QED BY <2>1, <2>3, <2>4, <2>5, <3>1 DEF Shaped
  <2>11. /\ Written(msg)' /\ Len(msg)' = Len(msg) /\ \A m \in 1..Len(msg) : LeftAs(msg[m], msg'[m])
    BY <2>1, <2>5, EndsWritten, EndsLeft
  <2>12. Placed(msg'[n], n, s2)
    <3>1. PICK r, k : r = msg[n] /\ k = msg'[n]
      OBVIOUS
    <3>2. Placed(r, n, s) /\ LeftAs(r, k) /\ ~r.old
      BY <2>2, <2>6, <2>11, <3>1 DEF TalkInv, OnceInv
    <3>3. ~k.old /\ k.acts = 0 /\ k.fate # "sent" /\ Alone(n, s)
      BY <2>7, <3>2 DEF Placed, Somewhere, LeftAs
    <3>4. Alone(n, s2)
      BY <2>7, <2>8, <3>3 DEF LessQueued, LessMoving, LessAlbums, Alone
    <3>5. Placed(k, n, s2)
      BY <3>3, <3>4 DEF Placed
    <3>6. QED BY <3>1, <3>5
  <2>13. QueueQuiet
    BY DEF QueueQuiet
  <2>14. QED BY <2>2, <2>9, <2>10, <2>11, <2>12, <2>13, MovesTalk
<1>3. QED BY <1>1, <1>2

LEMMA FetchedStarts ==
  ASSUME LawInv, TalkInv, UNCHANGED queue, NEW t \in moving, t.kind # "git", moving' = moving \ {t},
         NEW g, NEW rev, NEW next, Writer(next), Starts(t.m, g, rev, next)
  PROVE  TalkInv'
<1>1. CASE ~Begin(g, rev, next.action)
  BY <1>1, DeniedStart DEF QueueQuiet
<1>2. CASE Begin(g, rev, next.action)
  <2> DEFINE n == t.m
  <2>1. /\ bridge'.answer = None /\ bridge'.albums = bridge.albums /\ job'.m = n
        /\ \E ms : Ends(ms, "dropped")
    BY <1>2, StartedJob
  <2>2. PICK s, s2 : s = Places /\ s2 = Places'
    OBVIOUS
  <2>3. s2.queue = queue /\ s2.job = job' /\ s2.answer = None /\ s2.albums = bridge.albums /\ s2.moving = moving \ {t}
    BY <2>1, <2>2 DEF Places
  <2>4. s.queue = queue /\ s.albums = bridge.albums /\ s.moving = moving
    BY <2>2 DEF Places
  <2>5. Written(msg) /\ Shaped(s, Len(msg)) /\ Len(msg) \in Nat
    BY <2>2 DEF TalkInv, MsgInv, OnceInv, Written, IsSeq
  <2>6. n \in 1..Len(msg)
    BY <2>4, <2>5 DEF Shaped
  <2>7. \A m : LessQueued(m, s, s2) /\ LessMoving(m, s, s2) /\ LessAlbums(m, s, s2) /\ ~InAnswer(m, s2)
    <3>1. \A m : LessMoving(m, s, s2)
      BY <2>3, <2>4, MovingLess
    <3>2. \A m : LessAlbums(m, s, s2)
      BY <2>3, <2>4, AlbumsLess
    <3>3. \A m : ~InAnswer(m, s2)
      BY <2>3 DEF InAnswer
    <3>4. \A m : LessQueued(m, s, s2)
      BY <2>3, <2>4, QueueStays
    <3>5. QED BY <3>1, <3>2, <3>3, <3>4
  <2>8. IsMoving(n, s) /\ ~OnlyGit(n, s) /\ (MovesOnce(n, s) => ~IsMoving(n, s2))
    BY <2>3, <2>4 DEF IsMoving, OnlyGit, MovesOnce
  <2>9. \A m \in 1..Len(msg) : m # n => Less(m, s, s2)
    BY <2>1, <2>3, <2>7 DEF Less, AtJob
  <2>10. Shaped(s2, Len(msg))
    <3>1. n \in 0..Len(msg)
      BY <2>6
    <3>2. QED BY <2>1, <2>3, <2>4, <2>5, <3>1 DEF Shaped
  <2>11. /\ Written(msg)' /\ Len(msg)' = Len(msg) /\ \A m \in 1..Len(msg) : LeftAs(msg[m], msg'[m])
    BY <2>1, <2>5, EndsWritten, EndsLeft
  <2>12. Placed(msg'[n], n, s2)
    <3>1. PICK r, k : r = msg[n] /\ k = msg'[n]
      OBVIOUS
    <3>2. Placed(r, n, s) /\ LeftAs(r, k)
      BY <2>2, <2>6, <2>11, <3>1 DEF TalkInv, OnceInv
    <3>3. ~k.old /\ k.acts = 0 /\ k.fate # "sent" /\ Alone(n, s)
      BY <2>8, <3>2 DEF Placed, Somewhere, LeftAs
    <3>4. Alone(n, s2)
      BY <2>7, <2>8, <3>3 DEF LessQueued, LessMoving, LessAlbums, Alone
    <3>5. Placed(k, n, s2)
      BY <3>3, <3>4 DEF Placed
    <3>6. QED BY <3>1, <3>5
  <2>13. QueueQuiet
    BY DEF QueueQuiet
  <2>14. QED BY <2>2, <2>9, <2>10, <2>11, <2>12, <2>13, MovesTalk
<1>3. QED BY <1>1, <1>2

(* A message that begins a download or a repository command.               *)
LEMMA MovingMore ==
  ASSUME NEW s, NEW s2, NEW u, s2.moving = s.moving \cup {u}
  PROVE  /\ \A m : m # u.m => LessMoving(m, s, s2)
         /\ ~IsMoving(u.m, s) => MovesOnce(u.m, s2)
         /\ OnlyGit(u.m, s) /\ u.kind = "git" => OnlyGit(u.m, s2)
BY DEF LessMoving, IsMoving, MovesOnce, OnlyGit

LEMMA AlbumsMore ==
  ASSUME NEW s, NEW s2, NEW a, s2.albums = s.albums \cup {a}
  PROVE  /\ \A m : m # a.m => LessAlbums(m, s, s2)
         /\ ~InAlbum(a.m, s) => InOneAlbum(a.m, s2)
BY DEF LessAlbums, InAlbum, InOneAlbum

LEMMA QueuedMoves ==
  ASSUME TalkInv, queue # <<>>, queue' = Tail(queue), UNCHANGED <<bridge, job>>, NEW n, n = Head(queue),
         NEW g, NEW rev, NEW kind, ~msg[n].old \/ kind = "git", Async(n, g, rev, kind)
  PROVE  TalkInv'
<1>1. CASE UNCHANGED moving /\ Ends({n}, "busy")
  <2>1. Tells /\ JobQuiet /\ AnswerQuiet /\ MovingQuiet /\ QueueQuiet /\ bridge'.albums \subseteq bridge.albums
    BY <1>1 DEF Tells, JobQuiet, AnswerQuiet, MovingQuiet, QueueQuiet
  <2>2. QED BY <2>1, QuietTalk
<1>2. CASE /\ moving' = moving \cup {[m |-> n, g |-> g, rev |-> rev, kind |-> kind, at |-> "running"]}
           /\ Ends({n}, "waiting")
  <2>1. PICK u : u = [m |-> n, g |-> g, rev |-> rev, kind |-> kind, at |-> "running"]
    OBVIOUS
  <2>2. IsMove(u) /\ u.m = n /\ u.kind = kind /\ moving' = moving \cup {u}
    BY <1>2, <2>1 DEF IsMove
  <2>3. PICK s, s2 : s = Places /\ s2 = Places'
    OBVIOUS
  <2>4. /\ s2.queue = Tail(queue) /\ s2.job = job /\ s2.answer = bridge.answer
        /\ s2.albums = bridge.albums /\ s2.moving = moving \cup {u}
    BY <2>2, <2>3 DEF Places
  <2>5. s.queue = queue /\ s.job = job /\ s.answer = bridge.answer /\ s.albums = bridge.albums /\ s.moving = moving
    BY <2>3 DEF Places
  <2>6. Written(msg) /\ Waiting(queue, Len(msg)) /\ Shaped(s, Len(msg))
    BY <2>3 DEF TalkInv, MsgInv, OnceInv
  <2>7. queue \in Seq(Nat) /\ n \in 1..Len(msg)
    BY <2>6, HandledMessage DEF Waiting, TalkInv
  <2>8. /\ \A m : LessQueued(m, s, s2)
        /\ InQueue(n, s) /\ (QueuedOnce(n, s) => ~InQueue(n, s2))
    BY <2>4, <2>5, <2>7, QueueTail
  <2>9. \A m : LessAlbums(m, s, s2)
    BY <2>4, <2>5, AlbumsLess
  <2>10. \A m : (InAnswer(m, s2) <=> InAnswer(m, s)) /\ (AtJob(m, s2) <=> AtJob(m, s))
    BY <2>4, <2>5 DEF InAnswer, AtJob
  <2>11. /\ \A m : m # n => LessMoving(m, s, s2)
         /\ ~IsMoving(n, s) => MovesOnce(n, s2)
         /\ OnlyGit(n, s) /\ kind = "git" => OnlyGit(n, s2)
    BY <2>2, <2>4, <2>5, MovingMore
  <2>12. \A m \in 1..Len(msg) : m # n => Less(m, s, s2)
    BY <2>8, <2>9, <2>10, <2>11 DEF Less
  <2>13. Shaped(s2, Len(msg))
    BY <2>2, <2>4, <2>5, <2>6, <2>7 DEF Shaped
  <2>14. /\ Written(msg)' /\ Len(msg)' = Len(msg) /\ \A m \in 1..Len(msg) : LeftAs(msg[m], msg'[m])
    BY <1>2, <2>6, EndsWritten, EndsLeft
  <2>15. Placed(msg'[n], n, s2)
    <3>1. PICK r, k : r = msg[n] /\ k = msg'[n]
      OBVIOUS
    <3>2. Placed(r, n, s) /\ LeftAs(r, k) /\ (~r.old \/ kind = "git")
      BY <2>3, <2>7, <2>14, <3>1 DEF TalkInv, OnceInv
    <3>3. Placed(k, n, s2)
      <4>1. CASE r.old
        BY <2>9, <2>10, <2>11, <3>2, <4>1 DEF Placed, LeftAs, LessAlbums
      <4>2. CASE ~r.old
        <5>1. ~k.old /\ k.acts = 0 /\ k.fate # "sent" /\ Alone(n, s)
          BY <2>8, <3>2, <4>2 DEF Placed, Somewhere, LeftAs
        <5>2. Alone(n, s2)
          BY <2>8, <2>9, <2>10, <2>11, <5>1 DEF LessQueued, LessAlbums, Alone
        <5>3. QED BY <5>1, <5>2 DEF Placed
      <4>3. QED BY <4>1, <4>2
    <3>4. QED BY <3>1, <3>3
  <2>16. QueueQuiet
    BY DEF QueueQuiet
  <2>17. QED BY <2>3, <2>12, <2>13, <2>14, <2>15, <2>16, MovesTalk
<1>3. QED BY <1>1, <1>2 DEF Async

(* A part of an album waits for the others.                                *)
LEMMA QueuedPart ==
  ASSUME LawInv, TalkInv, queue # <<>>, queue' = Tail(queue), UNCHANGED <<moving, job>>, NEW n, n = Head(queue),
         NEW g, NEW rev, ~msg[n].old, Part(n, g, rev)
  PROVE  TalkInv'
<1>1. CASE UNCHANGED bridge /\ Ends({n}, "joined")
  <2>1. Tells /\ JobQuiet /\ AnswerQuiet /\ MovingQuiet /\ QueueQuiet /\ bridge'.albums \subseteq bridge.albums
    BY <1>1 DEF Tells, JobQuiet, AnswerQuiet, MovingQuiet, QueueQuiet
  <2>2. QED BY <2>1, QuietTalk
<1>2. CASE /\ bridge' = [bridge EXCEPT !.albums = @ \cup {[g |-> g, rev |-> rev, m |-> n]}]
           /\ Ends({n}, "waiting")
  <2>1. PICK a : a = [g |-> g, rev |-> rev, m |-> n]
    OBVIOUS
  <2>2. IsAlbum(a) /\ a.m = n /\ bridge' = [bridge EXCEPT !.albums = bridge.albums \cup {a}]
    BY <1>2, <2>1 DEF IsAlbum
  <2>3. bridge'.albums = bridge.albums \cup {a} /\ bridge'.answer = bridge.answer
    BY <2>2 DEF LawInv, LawBridge, IsBridge
  <2>4. PICK s, s2 : s = Places /\ s2 = Places'
    OBVIOUS
  <2>5. /\ s2.queue = Tail(queue) /\ s2.job = job /\ s2.answer = bridge.answer
        /\ s2.albums = bridge.albums \cup {a} /\ s2.moving = moving
    BY <2>3, <2>4 DEF Places
  <2>6. s.queue = queue /\ s.job = job /\ s.answer = bridge.answer /\ s.albums = bridge.albums /\ s.moving = moving
    BY <2>4 DEF Places
  <2>7. Written(msg) /\ Waiting(queue, Len(msg)) /\ Shaped(s, Len(msg))
    BY <2>4 DEF TalkInv, MsgInv, OnceInv
  <2>8. queue \in Seq(Nat) /\ n \in 1..Len(msg)
    BY <2>7, HandledMessage DEF Waiting, TalkInv
  <2>9. /\ \A m : LessQueued(m, s, s2)
        /\ InQueue(n, s) /\ (QueuedOnce(n, s) => ~InQueue(n, s2))
    BY <2>5, <2>6, <2>8, QueueTail
  <2>10. \A m : LessMoving(m, s, s2)
    BY <2>5, <2>6, MovingLess
  <2>11. \A m : (InAnswer(m, s2) <=> InAnswer(m, s)) /\ (AtJob(m, s2) <=> AtJob(m, s))
    BY <2>5, <2>6 DEF InAnswer, AtJob
  <2>12. /\ \A m : m # n => LessAlbums(m, s, s2)
         /\ ~InAlbum(n, s) => InOneAlbum(n, s2)
    BY <2>2, <2>5, <2>6, AlbumsMore
  <2>13. \A m \in 1..Len(msg) : m # n => Less(m, s, s2)
    BY <2>9, <2>10, <2>11, <2>12 DEF Less
  <2>14. Shaped(s2, Len(msg))
    BY <2>2, <2>5, <2>6, <2>7, <2>8 DEF Shaped
  <2>15. /\ Written(msg)' /\ Len(msg)' = Len(msg) /\ \A m \in 1..Len(msg) : LeftAs(msg[m], msg'[m])
    BY <1>2, <2>7, EndsWritten, EndsLeft
  <2>16. Placed(msg'[n], n, s2)
    <3>1. PICK r, k : r = msg[n] /\ k = msg'[n]
      OBVIOUS
    <3>2. Placed(r, n, s) /\ LeftAs(r, k) /\ ~r.old
      BY <2>4, <2>8, <2>15, <3>1 DEF TalkInv, OnceInv
    <3>3. ~k.old /\ k.acts = 0 /\ k.fate # "sent" /\ Alone(n, s)
      BY <2>9, <3>2 DEF Placed, Somewhere, LeftAs
    <3>4. Alone(n, s2)
      BY <2>9, <2>10, <2>11, <2>12, <3>3 DEF LessQueued, LessMoving, Alone
    <3>5. Placed(k, n, s2)
      BY <3>3, <3>4 DEF Placed
    <3>6. QED BY <3>1, <3>5
  <2>17. QueueQuiet
    BY DEF QueueQuiet
  <2>18. QED BY <2>4, <2>13, <2>14, <2>15, <2>16, <2>17, MovesTalk
<1>3. QED BY <1>1, <1>2 DEF Part

(* An album is sent.                                                       *)
LEMMA AlbumMoves ==
  ASSUME LawInv, TalkInv, NEW a \in bridge.albums, SendAlbum(a)
  PROVE  TalkInv'
<1>1. UNCHANGED <<queue, job>> /\ Async(a.m, a.g, a.rev, "file") /\ bridge' = [bridge EXCEPT !.albums = @ \ {a}]
  BY DEF SendAlbum, Stage
<1>2. bridge'.albums = bridge.albums \ {a} /\ bridge'.answer = bridge.answer
  BY <1>1 DEF LawInv, LawBridge, IsBridge
<1>3. CASE UNCHANGED moving /\ Ends({a.m}, "busy")
  <2>1. Tells /\ JobQuiet /\ AnswerQuiet /\ MovingQuiet /\ QueueQuiet /\ bridge'.albums \subseteq bridge.albums
    BY <1>1, <1>2, <1>3 DEF Tells, JobQuiet, AnswerQuiet, MovingQuiet, QueueQuiet
  <2>2. QED BY <2>1, QuietTalk
<1>4. CASE /\ moving' = moving \cup {[m |-> a.m, g |-> a.g, rev |-> a.rev, kind |-> "file", at |-> "running"]}
           /\ Ends({a.m}, "waiting")
  <2> DEFINE n == a.m
  <2>1. PICK u : u = [m |-> n, g |-> a.g, rev |-> a.rev, kind |-> "file", at |-> "running"]
    OBVIOUS
  <2>2. IsMove(u) /\ u.m = n /\ moving' = moving \cup {u}
    BY <1>4, <2>1 DEF IsMove
  <2>3. PICK s, s2 : s = Places /\ s2 = Places'
    OBVIOUS
  <2>4. /\ s2.queue = queue /\ s2.job = job /\ s2.answer = bridge.answer
        /\ s2.albums = bridge.albums \ {a} /\ s2.moving = moving \cup {u}
    BY <1>1, <1>2, <2>2, <2>3 DEF Places
  <2>5. s.queue = queue /\ s.job = job /\ s.answer = bridge.answer /\ s.albums = bridge.albums /\ s.moving = moving
    BY <2>3 DEF Places
  <2>6. Written(msg) /\ Shaped(s, Len(msg))
    BY <2>3 DEF TalkInv, MsgInv, OnceInv
  <2>7. n \in 1..Len(msg)
    BY <2>5, <2>6 DEF Shaped
  <2>8. \A m : LessQueued(m, s, s2)
    BY <2>4, <2>5, QueueStays
  <2>9. (\A m : LessAlbums(m, s, s2)) /\ InAlbum(n, s) /\ (InOneAlbum(n, s) => ~InAlbum(n, s2))
    <3>1. \A m : LessAlbums(m, s, s2)
      BY <2>4, <2>5, AlbumsLess
    <3>2. InAlbum(n, s) /\ (InOneAlbum(n, s) => ~InAlbum(n, s2))
      BY <2>4, <2>5 DEF InAlbum, InOneAlbum
    <3>3. QED BY <3>1, <3>2
  <2>10. \A m : (InAnswer(m, s2) <=> InAnswer(m, s)) /\ (AtJob(m, s2) <=> AtJob(m, s))
    BY <2>4, <2>5 DEF InAnswer, AtJob
  <2>11. /\ \A m : m # n => LessMoving(m, s, s2)
         /\ ~IsMoving(n, s) => MovesOnce(n, s2)
    BY <2>2, <2>4, <2>5, MovingMore
  <2>12. \A m \in 1..Len(msg) : m # n => Less(m, s, s2)
    BY <2>8, <2>9, <2>10, <2>11 DEF Less
  <2>13. Shaped(s2, Len(msg))
    BY <2>2, <2>4, <2>5, <2>6, <2>7 DEF Shaped
  <2>14. /\ Written(msg)' /\ Len(msg)' = Len(msg) /\ \A m \in 1..Len(msg) : LeftAs(msg[m], msg'[m])
    BY <1>4, <2>6, EndsWritten, EndsLeft
  <2>15. Placed(msg'[n], n, s2)
    <3>1. PICK r, k : r = msg[n] /\ k = msg'[n]
      OBVIOUS
    <3>2. Placed(r, n, s) /\ LeftAs(r, k)
      BY <2>3, <2>7, <2>14, <3>1 DEF TalkInv, OnceInv
    <3>3. ~k.old /\ k.acts = 0 /\ k.fate # "sent" /\ Alone(n, s)
      BY <2>9, <3>2 DEF Placed, Somewhere, LeftAs
    <3>4. Alone(n, s2)
      BY <2>8, <2>9, <2>10, <2>11, <3>3 DEF LessQueued, LessAlbums, Alone
    <3>5. Placed(k, n, s2)
      BY <3>3, <3>4 DEF Placed
    <3>6. QED BY <3>1, <3>5
  <2>16. QueueQuiet
    BY <1>1 DEF QueueQuiet
  <2>17. QED BY <2>3, <2>12, <2>13, <2>14, <2>15, <2>16, MovesTalk
<1>5. QED BY <1>1, <1>3, <1>4 DEF Async

---------------------------------------------------------------------------
(* A message is written, given to the bridge, and given again.             *)

LEMMA PollTalk ==
  ASSUME TalkInv, NEW n, Poll(n)
  PROVE  TalkInv'
<1>1. MsgInv'
  BY PollInv DEF TalkInv
<1>2. /\ n \in DOMAIN msg /\ msg[n].fate = "sent" /\ UNCHANGED <<bridge, job, moving>>
      /\ \/ queue' = Append(queue, n) /\ Ends({n}, "queued")
         \/ UNCHANGED queue /\ Ends({n}, "busy")
  BY DEF Poll
<1>3. CASE UNCHANGED queue /\ Ends({n}, "busy")
  <2>1. Tells /\ JobQuiet /\ AnswerQuiet /\ MovingQuiet /\ QueueQuiet /\ bridge'.albums \subseteq bridge.albums
    BY <1>2, <1>3 DEF Tells, JobQuiet, AnswerQuiet, MovingQuiet, QueueQuiet
  <2>2. QED BY <2>1, QuietTalk
<1>4. CASE queue' = Append(queue, n) /\ Ends({n}, "queued")
  <2>1. PICK s, s2 : s = Places /\ s2 = Places'
    OBVIOUS
  <2>2. /\ s2.queue = Append(queue, n) /\ s2.job = job /\ s2.answer = bridge.answer
        /\ s2.albums = bridge.albums /\ s2.moving = moving
    BY <1>2, <1>4, <2>1 DEF Places
  <2>3. s.queue = queue /\ s.job = job /\ s.answer = bridge.answer /\ s.albums = bridge.albums /\ s.moving = moving
    BY <2>1 DEF Places
  <2>4. Written(msg) /\ Waiting(queue, Len(msg)) /\ Shaped(s, Len(msg))
    BY <2>1 DEF TalkInv, MsgInv, OnceInv
  <2>5. DOMAIN msg = 1..Len(msg) /\ Len(msg) \in Nat /\ n \in 1..Len(msg) /\ n \in Nat /\ queue \in Seq(Nat)
    BY <1>2, <2>4 DEF Written, IsSeq, Waiting
  <2>6. /\ Len(s2.queue) = Len(s.queue) + 1 /\ Len(s.queue) \in Nat
        /\ s2.queue[Len(s.queue) + 1] = n /\ \A i \in 1..Len(s.queue) : s2.queue[i] = s.queue[i]
    BY <2>2, <2>3, <2>5
  <2>7. \A i \in 1..Len(s2.queue) : i \in 1..Len(s.queue) \/ i = Len(s.queue) + 1
    BY <2>6
  <2>8. \A m : m # n => LessQueued(m, s, s2)
    BY <2>6, <2>7 DEF LessQueued, InQueue, QueuedOnce
  <2>9. ~InQueue(n, s) => QueuedOnce(n, s2)
    BY <2>6, <2>7 DEF InQueue, QueuedOnce
  <2>10. (\A m : LessMoving(m, s, s2)) /\ (\A m : LessAlbums(m, s, s2))
    BY <2>2, <2>3, MovingLess, AlbumsLess
  <2>11. \A m : (InAnswer(m, s2) <=> InAnswer(m, s)) /\ (AtJob(m, s2) <=> AtJob(m, s))
    BY <2>2, <2>3 DEF InAnswer, AtJob
  <2>12. Shaped(s2, Len(msg))
    BY <2>2, <2>3, <2>4 DEF Shaped
  <2>13. /\ Written(msg)' /\ Len(msg)' = Len(msg) /\ \A m \in 1..Len(msg) : LeftAs(msg[m], msg'[m])
    BY <1>4, <2>4, EndsWritten, EndsLeft
  <2>14. Placed(msg'[n], n, s2)
    <3>1. PICK r, k : r = msg[n] /\ k = msg'[n]
      OBVIOUS
    <3>2. Placed(r, n, s) /\ LeftAs(r, k) /\ r.fate = "sent"
      BY <1>2, <2>1, <2>5, <2>13, <3>1 DEF TalkInv, OnceInv
    <3>3. k = [r EXCEPT !.fate = "queued"] /\ IsMsg(r)
      BY <1>4, <2>4, <2>5, <3>1 DEF Ends, Written
    <3>4. k.fate = "queued"
      BY <3>3 DEF IsMsg
    <3>5. Placed(k, n, s2)
      <4>1. CASE r.old
        BY <2>10, <2>11, <3>2, <4>1 DEF Placed, LeftAs, LessAlbums, LessMoving
      <4>2. CASE ~r.old
        <5>1. ~k.old /\ k.acts = 0 /\ k.fate # "sent" /\ Alone(n, s) /\ ~Somewhere(n, s)
          BY <3>2, <3>4, <4>2 DEF Placed, LeftAs
        <5>2. Alone(n, s2)
          BY <2>9, <2>10, <2>11, <5>1 DEF LessAlbums, LessMoving, Alone, Somewhere
        <5>3. QED BY <5>1, <5>2 DEF Placed
      <4>3. QED BY <4>1, <4>2
    <3>6. QED BY <3>1, <3>5
  <2>15. \A m \in 1..Len(msg') : Placed(msg'[m], m, s2)
    <3>1. SUFFICES ASSUME NEW m \in 1..Len(msg), m # n
                   PROVE  Placed(msg'[m], m, s2)
      BY <2>13, <2>14
    <3>2. Less(m, s, s2)
      BY <2>8, <2>10, <2>11, <3>1 DEF Less
    <3>3. QED BY <2>1, <2>13, <3>2, PlacedLess DEF TalkInv, OnceInv
  <2>16. OnceInv'
    BY <2>1, <2>12, <2>13, <2>15, OnceNext
  <2>17. QED BY <1>1, <2>16 DEF TalkInv
<1>5. QED BY <1>2, <1>3, <1>4

LEMMA WritesTalk ==
  ASSUME TalkInv, NEW g \in Grants, NEW kind \in Kinds, Writes(g, kind)
  PROVE  TalkInv'
<1>1. MsgInv'
  BY WritesInv DEF TalkInv
<1>2. PICK r : r = [g |-> g, kind |-> kind, n |-> Ref(g, kind), fate |-> "sent", acts |-> 0,
                    held |-> opt.restarts > 0, old |-> FALSE]
  OBVIOUS
<1>3. r.acts = 0 /\ ~r.old
  BY <1>2
<1>4. msg' = Append(msg, r) /\ UNCHANGED <<queue, bridge, job, moving>>
  BY <1>2 DEF Writes
<1>5. PICK s : s = Places /\ s = Places'
  BY <1>4 DEF Places
<1>6. PICK S : msg \in Seq(S)
  BY DEF TalkInv, MsgInv, Written, IsSeq
<1>7. /\ Len(msg') = Len(msg) + 1 /\ Len(msg) \in Nat
      /\ msg'[Len(msg) + 1] = r /\ \A m \in 1..Len(msg) : msg'[m] = msg[m]
  BY <1>4, <1>6
<1>8. Shaped(s, Len(msg)) /\ \A m \in 1..Len(msg) : Placed(msg[m], m, s)
  BY <1>5 DEF TalkInv, OnceInv
<1>9. Shaped(s, Len(msg'))
  BY <1>7, <1>8 DEF Shaped
<1>10. Placed(r, Len(msg) + 1, s)
  <2>1. PICK n : n = Len(msg) + 1
    OBVIOUS
  <2>2. n \notin 0..Len(msg) /\ n \notin 1..Len(msg)
    BY <1>7, <2>1
  <2>3. ~AtJob(n, s) /\ ~InAnswer(n, s) /\ ~InAlbum(n, s) /\ ~IsMoving(n, s)
    BY <1>8, <2>2 DEF Shaped, AtJob, InAnswer, InAlbum, IsMoving
  <2>4. ~InQueue(n, s)
    <3>1. s.queue = queue /\ Waiting(queue, Len(msg))
      BY <1>5 DEF Places, TalkInv, MsgInv
    <3>2. QED BY <2>2, <3>1 DEF InQueue, Waiting
  <2>5. QueuedOnce(n, s) /\ InOneAlbum(n, s) /\ MovesOnce(n, s)
    BY <2>3, <2>4 DEF QueuedOnce, InOneAlbum, MovesOnce, InQueue, InAlbum, IsMoving
  <2>6. Placed(r, n, s)
    BY <1>3, <2>3, <2>4, <2>5 DEF Placed, Alone, Somewhere
  <2>7. QED BY <2>1, <2>6
<1>11. \A m \in 1..Len(msg') : m \in 1..Len(msg) \/ m = Len(msg) + 1
  BY <1>7
<1>12. \A m \in 1..Len(msg') : Placed(msg'[m], m, s)
  BY <1>7, <1>8, <1>10, <1>11
<1>13. QED BY <1>1, <1>5, <1>9, <1>12, OnceNext DEF TalkInv

LEMMA RestartTalk ==
  ASSUME TalkInv, Restart
  PROVE  TalkInv'
<1>1. PICK s, s2 : s = Places /\ s2 = Places'
  OBVIOUS
<1>2. job' = None /\ queue' = <<>> /\ moving' = {} /\ bridge' = Fresh(pane.status = "working")
  BY DEF Restart
<1>3. s2.queue = <<>> /\ s2.job = None /\ s2.answer = None /\ s2.albums = {} /\ s2.moving = {}
  BY <1>1, <1>2 DEF Places, Fresh
<1>4. Written(msg)
  BY DEF TalkInv, MsgInv
<1>5. Written(msg)' /\ Len(msg)' = Len(msg)
  BY <1>4, RestartWritten
<1>6. MsgInv'
  BY <1>2, <1>5, ToldInv DEF TalkInv
<1>7. Shaped(s2, Len(msg'))
  BY <1>3 DEF Shaped, Acting
<1>8. \A m : ~Somewhere(m, s2) /\ Alone(m, s2) /\ OnlyGit(m, s2)
  BY <1>3 DEF Somewhere, Alone, OnlyGit, InQueue, AtJob, InAnswer, InAlbum, IsMoving,
     QueuedOnce, InOneAlbum, MovesOnce, Acting
<1>9. ASSUME NEW m \in 1..Len(msg)
      PROVE  Placed(msg'[m], m, s2)
  <2>1. PICK r, k : r = msg[m] /\ k = msg'[m]
    OBVIOUS
  <2>2. Placed(r, m, s) /\ IsMsg(r) /\ m \in DOMAIN msg
    BY <1>1, <1>4, <2>1 DEF TalkInv, OnceInv, Written, IsSeq
  <2>3. \/ k = [r EXCEPT !.fate = "sent", !.old = TRUE]
        \/ k = [r EXCEPT !.fate = IF @ \in {"queued", "waiting"} THEN "lost" ELSE @]
    BY <2>1, <2>2 DEF Restart
  <2>4. k.acts = r.acts /\ (k.old = TRUE \/ (k.old = r.old /\ (k.fate = "sent" => r.fate = "sent")))
    BY <2>2, <2>3 DEF IsMsg
  <2>5. k.acts \in {0, 1} /\ (~k.old /\ k.fate = "sent" => k.acts = 0)
    BY <2>2, <2>4 DEF Placed
  <2>6. Placed(k, m, s2)
    BY <1>8, <2>5 DEF Placed, Somewhere
  <2>7. QED BY <2>1, <2>6
<1>10. OnceInv'
  BY <1>1, <1>5, <1>7, <1>9, OnceNext
<1>11. QED BY <1>6, <1>10 DEF TalkInv

---------------------------------------------------------------------------
(* Every step of the program keeps a message at one place, until it acts.  *)

(* What a step leaves of the waits, when it is quiet.                      *)
LEMMA QuietStep ==
  ASSUME TalkInv, Tells, QueueQuiet, JobQuiet, UNCHANGED moving,
         UNCHANGED bridge \/ (bridge'.answer = bridge.answer /\ bridge'.albums = bridge.albums)
  PROVE  TalkInv'
<1>1. AnswerQuiet /\ MovingQuiet /\ bridge'.albums \subseteq bridge.albums
  BY DEF AnswerQuiet, MovingQuiet
<1>2. QED BY <1>1, QuietTalk

LEMMA RefreshKeeps ==
  ASSUME NEW b, IsBridge(b), b.answer = bridge.answer, b.albums = bridge.albums, bridge' = Refreshed(b)
  PROVE  bridge'.answer = bridge.answer /\ bridge'.albums = bridge.albums
<1>1. PICK c : c = Refreshed(b) /\ c.answer = b.answer /\ c.albums = b.albums
  BY ObservedBridge DEF Refreshed
<1>2. QED BY <1>1

LEMMA HandleTalk ==
  ASSUME LawInv, TalkInv, Handle
  PROVE  TalkInv'
<1>1. PICK m : m = Head(queue)
  OBVIOUS
<1>2. queue # <<>> /\ queue' = Tail(queue) /\ msg[m].kind \in Kinds /\ QueueQuiet
  BY <1>1, HandledMessage DEF Handle, TalkInv, QueueQuiet
<1>3. ASSUME UNCHANGED <<bridge, job, moving>>, NEW fate, fate # "sent", Ends({m}, fate)
      PROVE  TalkInv'
  <2>1. Tells /\ JobQuiet
    BY <1>3 DEF Tells, JobQuiet
  <2>2. QED BY <1>2, <1>3, <2>1, QuietStep
<1>4. ASSUME UNCHANGED moving, ~msg[m].old, NEW g, NEW rev, NEW next, Writer(next), Starts(m, g, rev, next)
      PROVE  TalkInv'
  BY <1>1, <1>2, <1>4, QueuedStarts
<1>5. CASE msg[m].kind \in {"choice", "pencil"}
  <2>1. PressOf(m)
    BY <1>1, <1>5 DEF Handle
  <2>2. PICK b : b = chat[msg[m].g].button
    OBVIOUS
  <2>3. \/ UNCHANGED <<bridge, job, moving>> /\ Ends({m}, "stale")
        \/ /\ ~msg[m].old /\ UNCHANGED moving
           /\ Starts(m, msg[m].g, b.rev, Act(msg[m].kind, "dialog", b.question))
    BY <2>1, <2>2 DEF PressOf, Told, Stale
  <2>4. Writer(Act(msg[m].kind, "dialog", b.question))
    BY <1>5, ActWrites DEF Writing
  <2>5. QED BY <1>3, <1>4, <2>3, <2>4
<1>6. CASE msg[m].kind = "confirm"
  <2>1. PressClose(m)
    BY <1>1, <1>6 DEF Handle
  <2>2. \/ UNCHANGED <<bridge, job, moving>> /\ Ends({m}, "stale")
        \/ /\ ~msg[m].old /\ UNCHANGED moving
           /\ \E rev : Starts(m, msg[m].g, rev, Act("confirm", "close", 0))
    BY <2>1 DEF PressClose, Told, Stale
  <2>3. Writer(Act("confirm", "close", 0))
    BY ActWrites DEF Writing
  <2>4. QED BY <1>3, <1>4, <2>2, <2>3
<1>7. CASE msg[m].kind \in {"pause", "resume"}
  <2>1. Local(m)
    BY <1>1, <1>7 DEF Handle
  <2>2. /\ UNCHANGED <<job, moving>> /\ (UNCHANGED bridge \/ bridge' = Refreshed(bridge))
        /\ Ends({m}, "stale") \/ Ends({m}, "denied") \/ Ends({m}, "done")
    BY <2>1 DEF Local, Told
  <2>3. Tells /\ JobQuiet
    BY <2>2 DEF Tells, JobQuiet
  <2>4. UNCHANGED bridge \/ (bridge'.answer = bridge.answer /\ bridge'.albums = bridge.albums)
    BY <2>2, RefreshKeeps DEF LawInv, LawBridge
  <2>5. QED BY <1>2, <2>2, <2>3, <2>4, QuietStep
<1>8. CASE msg[m].kind \in {"plain", "keys", "usage", "screen", "close", "file", "git", "part"}
  <2> DEFINE g == msg[m].g
             rev == grant[g].rev
  <2>1. Command(m)
    BY <1>1, <1>8 DEF Handle
  <2>2. \/ UNCHANGED <<bridge, job, moving>> /\ \E fate : fate # "sent" /\ Ends({m}, fate)
        \/ ~msg[m].old /\ UNCHANGED moving /\ Plain(m, g, rev)
        \/ ~msg[m].old /\ UNCHANGED moving /\ Starts(m, g, rev, Act("enter", "keys", 0))
        \/ ~msg[m].old /\ UNCHANGED moving /\ Starts(m, g, rev, Act("usage", "forward", 0))
        \/ /\ ~msg[m].old \/ msg[m].kind = "git"
           /\ Async(m, g, rev, msg[m].kind) /\ UNCHANGED <<bridge, job>>
        \/ ~msg[m].old /\ Part(m, g, rev) /\ UNCHANGED <<moving, job>>
    <3>1. \A fate : Told(m, fate) => UNCHANGED <<bridge, job, moving>> /\ Ends({m}, fate)
      BY DEF Told
    <3>2. CASE msg[m].kind = "plain"
      BY <2>1, <3>1, <3>2 DEF Command, Stale, StaleSafe, Reads
    <3>3. CASE msg[m].kind = "keys"
      BY <2>1, <3>1, <3>3 DEF Command, Stale, StaleSafe, Reads
    <3>4. CASE msg[m].kind = "usage"
      BY <2>1, <3>1, <3>4 DEF Command, Stale, StaleSafe, Reads
    <3>5. CASE msg[m].kind = "screen"
      BY <2>1, <3>1, <3>5 DEF Command, Stale, StaleSafe, Reads
    <3>6. CASE msg[m].kind = "close"
      BY <2>1, <3>1, <3>6 DEF Command, Stale, StaleSafe, Reads
    <3>7. CASE msg[m].kind \in {"file", "git"}
      BY <2>1, <3>1, <3>7 DEF Command, Stale, StaleSafe, Reads
    <3>8. CASE msg[m].kind = "part"
      BY <2>1, <3>1, <3>8 DEF Command, Stale, StaleSafe, Reads
    <3>9. QED BY <1>8, <3>2, <3>3, <3>4, <3>5, <3>6, <3>7, <3>8
  <2>3. CASE UNCHANGED <<bridge, job, moving>> /\ \E fate : fate # "sent" /\ Ends({m}, fate)
    BY <1>3, <2>3
  <2>4. CASE ~msg[m].old /\ UNCHANGED moving /\ Plain(m, g, rev)
    <3>1. PICK j : j = IF bridge.typing = None THEN Act("prompt", "prompt", Shown(g)) ELSE Act("deliver", "prompt", bridge.typing.question)
      OBVIOUS
    <3>2. Writer(j)
      BY <3>1, ActWrites DEF Writing
    <3>3. Starts(m, g, rev, j)
      BY <2>4, <3>1 DEF Plain
    <3>4. QED BY <1>4, <2>4, <3>2, <3>3
  <2>5. CASE ~msg[m].old /\ UNCHANGED moving /\ Starts(m, g, rev, Act("enter", "keys", 0))
    <3>1. Writer(Act("enter", "keys", 0))
      BY ActWrites DEF Writing
    <3>2. QED BY <1>4, <2>5, <3>1
  <2>6. CASE ~msg[m].old /\ UNCHANGED moving /\ Starts(m, g, rev, Act("usage", "forward", 0))
    <3>1. Writer(Act("usage", "forward", 0))
      BY ActWrites DEF Writing
    <3>2. QED BY <1>4, <2>6, <3>1
  <2>7. CASE /\ ~msg[m].old \/ msg[m].kind = "git"
             /\ Async(m, g, rev, msg[m].kind) /\ UNCHANGED <<bridge, job>>
    BY <1>1, <1>2, <2>7, QueuedMoves
  <2>8. CASE ~msg[m].old /\ Part(m, g, rev) /\ UNCHANGED <<moving, job>>
    BY <1>1, <1>2, <2>8, QueuedPart
  <2>9. QED BY <2>2, <2>3, <2>4, <2>5, <2>6, <2>7, <2>8
<1>9. QED BY <1>2, <1>5, <1>6, <1>7, <1>8 DEF Kinds, Presses, Reads

LEMMA TransfersTalk ==
  ASSUME LawInv, TalkInv, Transfers
  PROVE  TalkInv'
<1>1. CASE \E t \in moving : Transfer(t)
  <2>1. PICK t \in moving : Transfer(t)
    BY <1>1
  <2>2. UNCHANGED <<bridge, queue, job>>
    BY <2>1 DEF Transfer
  <2>3. IsMove(t)
    BY DEF TalkInv, OnceInv, Shaped, Places
  <2>4. Tells
    BY <2>1 DEF Transfer, Tells
  <2>5. MovingQuiet
    <3>1. CASE moving' = moving \ {t}
      BY <3>1 DEF MovingQuiet
    <3>2. CASE \E at : moving' = (moving \ {t}) \cup {[t EXCEPT !.at = at]}
      <4>1. PICK at : moving' = (moving \ {t}) \cup {[t EXCEPT !.at = at]}
        BY <3>2
      <4>2. PICK u : u = [t EXCEPT !.at = at]
        OBVIOUS
      <4>3. IsMove(u) /\ u.m = t.m /\ u.kind = t.kind
        BY <2>3, <4>2 DEF IsMove
      <4>4. moving' = (moving \ {t}) \cup {u}
        BY <4>1, <4>2
      <4>5. QED BY <4>3, <4>4 DEF MovingQuiet
    <3>3. QED BY <2>1, <3>1, <3>2 DEF Transfer
  <2>6. QueueQuiet /\ JobQuiet /\ AnswerQuiet /\ bridge'.albums \subseteq bridge.albums
    BY <2>2 DEF QueueQuiet, JobQuiet, AnswerQuiet
  <2>7. QED BY <2>4, <2>5, <2>6, QuietTalk
<1>2. CASE \E t \in moving : Result(t)
  <2>1. PICK t \in moving : Result(t)
    BY <1>2
  <2>2. UNCHANGED queue /\ moving' = moving \ {t}
    BY <2>1 DEF Result
  <2>3. CASE t.at = "fetched" /\ t.kind # "git"
    <3>1. Starts(t.m, t.g, t.rev, Act("prompt", "attachment", Shown(t.g)))
      BY <2>1, <2>3 DEF Result
    <3>2. Writer(Act("prompt", "attachment", Shown(t.g)))
      BY ActWrites DEF Writing
    <3>3. QED BY <2>2, <2>3, <3>1, <3>2, FetchedStarts
  <2>4. CASE ~(t.at = "fetched" /\ t.kind # "git")
    <3>1. UNCHANGED <<bridge, job>> /\ (Ends({t.m}, "failed") \/ Ends({t.m}, "done"))
      BY <2>1, <2>4 DEF Result
    <3>2. Tells /\ MovingQuiet /\ QueueQuiet /\ JobQuiet /\ AnswerQuiet /\ bridge'.albums \subseteq bridge.albums
      BY <2>2, <3>1 DEF Tells, MovingQuiet, QueueQuiet, JobQuiet, AnswerQuiet
    <3>3. QED BY <3>2, QuietTalk
  <2>5. QED BY <2>3, <2>4
<1>3. QED BY <1>1, <1>2 DEF Transfers

LEMMA JobsTalk ==
  ASSUME LawInv, TalkInv, Jobs
  PROVE  TalkInv'
<1>1. IsBridge(bridge)
  BY DEF LawInv, LawBridge
<1>2. ASSUME Acting(job), job' = None, NEW fate, fate # "sent", EndsActed(job.m, fate), UNCHANGED <<queue, moving>>,
             UNCHANGED bridge \/ (bridge'.answer = bridge.answer /\ bridge'.albums = bridge.albums)
      PROVE  TalkInv'
  BY <1>2, ActedTalk
<1>3. ASSUME Tells, UNCHANGED <<queue, moving, bridge>>, JobQuiet
      PROVE  TalkInv'
  BY <1>3, QuietStep DEF QueueQuiet
<1>4. CASE JobDenied \/ JobFails
  <2>1. job' = None /\ UNCHANGED <<queue, moving, bridge>> /\ (Ends({job.m}, "denied") \/ Ends({job.m}, "failed"))
    BY <1>4 DEF JobDenied, JobFails
  <2>2. QED BY <1>3, <2>1 DEF Tells, JobQuiet, Acting
<1>5. CASE Press
  <2>1. Acting(job) /\ job' = None /\ EndsActed(job.m, "done") /\ UNCHANGED <<queue, moving>>
    BY <1>5 DEF Press, Job, Acting
  <2>2. PICK b : /\ b = IF job.do = "pencil" THEN [bridge EXCEPT !.typing = [g |-> job.g, rev |-> job.rev, question |-> job.meant]] ELSE bridge
                 /\ bridge' = Refreshed(b)
    BY <1>5 DEF Press
  <2>3. IsBridge(b) /\ b.answer = bridge.answer /\ b.albums = bridge.albums
    BY <1>1, <2>2 DEF IsBridge
  <2>4. QED BY <1>2, <2>1, <2>2, <2>3, RefreshKeeps
<1>6. CASE PressUnmarked \/ SendKeys \/ Close \/ TypeAnswer \/ Deliver
  <2>1. Acting(job) /\ job' = None /\ EndsActed(job.m, "done") /\ UNCHANGED <<queue, moving, bridge>>
    BY <1>6 DEF PressUnmarked, SendKeys, Close, TypeAnswer, Deliver, Job, Acting
  <2>2. QED BY <1>2, <2>1
<1>7. CASE Forward
  <2>1. Acting(job) /\ job' = None /\ UNCHANGED <<queue, moving>>
    BY <1>7 DEF Forward, Job, Acting
  <2>2. CASE pane.status = "blocked"
    <3>1. Ends({job.m}, "refused") /\ UNCHANGED bridge
      BY <1>7, <2>2 DEF Forward
    <3>2. QED BY <1>3, <2>1, <3>1 DEF Tells, JobQuiet, Acting
  <2>3. CASE pane.status # "blocked"
    <3>1. EndsActed(job.m, "done") /\ bridge' = [bridge EXCEPT !.follow = Append(@, [g |-> job.g, rev |-> job.rev])]
      BY <1>7, <2>3 DEF Forward
    <3>2. bridge'.answer = bridge.answer /\ bridge'.albums = bridge.albums
      BY <1>1, <3>1 DEF IsBridge
    <3>3. QED BY <1>2, <2>1, <3>1, <3>2
  <2>4. QED BY <2>2, <2>3
<1>8. CASE Prompt
  <2>1. Acting(job) /\ UNCHANGED <<queue, moving, bridge>>
    BY <1>8 DEF Prompt, Job, Acting
  <2>2. CASE pane.status # "blocked"
    <3>1. EndsActed(job.m, "done") /\ job' = None
      BY <1>8, <2>2 DEF Prompt
    <3>2. QED BY <1>2, <2>1, <3>1
  <2>3. CASE pane.status = "blocked"
    <3>1. \/ Ends({job.m}, "refused") /\ job' = None
          \/ UNCHANGED msg /\ job' = [job EXCEPT !.do = "look"]
      BY <1>8, <2>3 DEF Prompt
    <3>2. IsAct(job)
      BY <2>1 DEF LawInv, LawJob
    <3>3. Tells /\ JobQuiet
      BY <2>1, <3>1, <3>2 DEF Tells, JobQuiet, Acting, IsAct
    <3>4. QED BY <1>3, <2>1, <3>3
  <2>4. QED BY <2>2, <2>3
<1>9. CASE StartAnswer
  <2>1. Acting(job) /\ UNCHANGED <<queue, moving, bridge>>
    BY <1>9 DEF StartAnswer, Job, Acting
  <2>2. \/ Ends({job.m}, "refused") /\ job' = None
        \/ UNCHANGED msg /\ \E do : job' = [job EXCEPT !.do = do]
    BY <1>9 DEF StartAnswer
  <2>3. IsAct(job)
    BY <2>1 DEF LawInv, LawJob
  <2>4. Tells /\ JobQuiet
    BY <2>1, <2>2, <2>3 DEF Tells, JobQuiet, Acting, IsAct
  <2>5. QED BY <1>3, <2>1, <2>4
<1>10. CASE Service
  <2>1. job' = None /\ UNCHANGED <<queue, moving, bridge, msg>>
    BY <1>10 DEF Service
  <2>2. QED BY <1>3, <2>1 DEF Tells, JobQuiet, Acting
<1>11. CASE job # None /\ job.do = "send" /\ \E p \in job.to : SendPost(p)
  <2>1. UNCHANGED <<queue, moving, bridge, msg>> /\ (job' = None \/ \E to : job' = [job EXCEPT !.to = to])
    BY <1>11 DEF SendPost
  <2>2. IsSend(job)
    BY <1>11 DEF LawInv, LawJob
  <2>3. JobQuiet
    BY <2>1, <2>2 DEF JobQuiet, Acting, IsSend
  <2>4. QED BY <1>3, <2>1, <2>3 DEF Tells
<1>12. QED BY <1>4, <1>5, <1>6, <1>7, <1>8, <1>9, <1>10, <1>11, FocusTalk DEF Jobs

LEMMA StagesTalk ==
  ASSUME LawInv, TalkInv, PollAnswer => bridge.answer # None, Stages
  PROVE  TalkInv'
<1>1. IsBridge(bridge)
  BY DEF LawInv, LawBridge
<1>2. ASSUME Tells, UNCHANGED <<queue, moving>>, JobQuiet,
             UNCHANGED bridge \/ (bridge'.answer = bridge.answer /\ bridge'.albums = bridge.albums)
      PROVE  TalkInv'
  BY <1>2, QuietStep DEF QueueQuiet
<1>3. CASE PollAnswer
  <2>1. PICK a : a = bridge.answer
    OBVIOUS
  <2>2. IsAnswer(a) /\ UNCHANGED <<queue, moving>>
    BY <1>3, <2>1 DEF LawInv, LawBridge, PollAnswer, Stage
  <2>3. \/ bridge' = [bridge EXCEPT !.answer = None] /\ UNCHANGED msg /\ job' = Typing(bridge.answer)
        \/ /\ bridge' = [bridge EXCEPT !.answer = None] /\ UNCHANGED job
           /\ Ends({a.m}, "denied") \/ Ends({a.m}, "refused")
        \/ bridge' = [bridge EXCEPT !.answer = Polled(a)] /\ UNCHANGED <<job, msg>>
    BY <1>3, <2>1 DEF PollAnswer
  <2>4. CASE bridge' = [bridge EXCEPT !.answer = None] /\ UNCHANGED msg /\ job' = Typing(bridge.answer)
    BY <1>3, <2>2, <2>4, TypingTalk
  <2>5. CASE /\ bridge' = [bridge EXCEPT !.answer = None] /\ UNCHANGED job
             /\ Ends({a.m}, "denied") \/ Ends({a.m}, "refused")
    <3>1. bridge'.answer = None /\ bridge'.albums = bridge.albums
      BY <1>1, <2>5 DEF IsBridge
    <3>2. Tells /\ JobQuiet /\ AnswerQuiet /\ MovingQuiet /\ QueueQuiet /\ bridge'.albums \subseteq bridge.albums
      BY <2>2, <2>5, <3>1 DEF Tells, JobQuiet, AnswerQuiet, MovingQuiet, QueueQuiet
    <3>3. QED BY <3>2, QuietTalk
  <2>6. CASE bridge' = [bridge EXCEPT !.answer = Polled(a)] /\ UNCHANGED <<job, msg>>
    <3>1. PICK c : c = Polled(a)
      OBVIOUS
    <3>2. c.m = a.m
      BY <2>2, <3>1 DEF IsAnswer, Polled
    <3>3. bridge' = [bridge EXCEPT !.answer = c]
      BY <2>6, <3>1
    <3>4. bridge'.answer = c /\ bridge'.albums = bridge.albums
      BY <1>1, <3>3 DEF IsBridge
    <3>5. Tells /\ JobQuiet /\ MovingQuiet /\ QueueQuiet /\ bridge'.albums \subseteq bridge.albums
      BY <2>2, <2>6, <3>4 DEF Tells, JobQuiet, MovingQuiet, QueueQuiet
    <3>6. AnswerQuiet
      BY <1>3, <2>1, <3>2, <3>4 DEF AnswerQuiet
    <3>7. QED BY <3>5, <3>6, QuietTalk
  <2>7. QED BY <2>3, <2>4, <2>5, <2>6
<1>4. CASE DropTyping
  <2>1. UNCHANGED <<queue, moving, job, msg>> /\ (UNCHANGED bridge \/ bridge' = [bridge EXCEPT !.typing = None])
    BY <1>4 DEF DropTyping, Stage
  <2>2. UNCHANGED bridge \/ (bridge'.answer = bridge.answer /\ bridge'.albums = bridge.albums)
    BY <1>1, <2>1 DEF IsBridge
  <2>3. QED BY <1>2, <2>1, <2>2 DEF Tells, JobQuiet
<1>5. CASE Output
  <2>1. UNCHANGED <<queue, moving, msg>> /\ \E p : bridge' = [bridge EXCEPT !.post = p]
    BY <1>5 DEF Output, Stage, Captured, WaitForReply, Remains
  <2>2. bridge'.answer = bridge.answer /\ bridge'.albums = bridge.albums
    BY <1>1, <2>1 DEF IsBridge
  <2>3. UNCHANGED job \/ \E to, screen : Send(to, screen)
    BY <1>5 DEF Output, Captured, WaitForReply
  <2>4. UNCHANGED job \/ \E to, screen, status, seq : job' = [do |-> "send", to |-> to, screen |-> screen, status |-> status, seq |-> seq]
    BY <2>3 DEF Send
  <2>5. JobQuiet
    BY <2>4 DEF JobQuiet, Acting
  <2>6. QED BY <1>2, <2>1, <2>2, <2>5 DEF Tells
<1>6. CASE DashboardOver
  <2>1. UNCHANGED <<queue, moving, job, msg, bridge>>
    BY <1>6 DEF DashboardOver, Stage
  <2>2. QED BY <1>2, <2>1 DEF Tells, JobQuiet
<1>7. CASE Follow
  <2>1. PICK f : f = Head(bridge.follow)
    OBVIOUS
  <2>2. UNCHANGED <<queue, moving>>
    BY <1>7 DEF Follow, Stage
  <2>3. CASE UNCHANGED <<bridge, job, msg>>
    BY <1>2, <2>2, <2>3 DEF Tells, JobQuiet
  <2>4. CASE bridge' = [bridge EXCEPT !.follow = Tail(@)] /\ UNCHANGED <<job, msg>>
    <3>1. bridge'.answer = bridge.answer /\ bridge'.albums = bridge.albums
      BY <1>1, <2>4 DEF IsBridge
    <3>2. QED BY <1>2, <2>2, <2>4, <3>1 DEF Tells, JobQuiet
  <2>5. CASE /\ bridge' = [Invalidated(bridge) EXCEPT !.follow = Tail(@)] /\ Ends(Dropped, "dropped")
             /\ job' = [Act("esc", "keys", 0) EXCEPT !.g = f.g, !.rev = f.rev]
    <3>1. PICK c : c = Invalidated(bridge) /\ IsBridge(c) /\ c.answer = None /\ c.albums = bridge.albums
      BY <1>1, InvalidatedBridge
    <3>2. bridge' = [c EXCEPT !.follow = Tail(c.follow)]
      BY <2>5, <3>1
    <3>3. bridge'.answer = None /\ bridge'.albums = bridge.albums
      BY <3>1, <3>2 DEF IsBridge
    <3>4. job'.m = 0
      <4>1. job' = [[do |-> "esc", action |-> "keys", meant |-> 0, m |-> 0, g |-> None, rev |-> 0, late |-> heard # <<>>]
                    EXCEPT !.g = f.g, !.rev = f.rev]
        BY <2>5 DEF Act
      <4>2. QED BY <4>1
    <3>5. Tells /\ JobQuiet /\ AnswerQuiet /\ MovingQuiet /\ QueueQuiet /\ bridge'.albums \subseteq bridge.albums
      BY <2>2, <2>5, <3>3, <3>4 DEF Tells, JobQuiet, AnswerQuiet, MovingQuiet, QueueQuiet
    <3>6. QED BY <3>5, QuietTalk
  <2>6. QED BY <1>7, <2>1, <2>3, <2>4, <2>5 DEF Follow
<1>8. CASE \E g \in Grants : Notice(g)
  <2>1. UNCHANGED <<queue, moving, job, msg, bridge>>
    BY <1>8 DEF Notice, Stage
  <2>2. QED BY <1>2, <2>1 DEF Tells, JobQuiet
<1>9. CASE \E g \in Grants : Dashboard(g)
  <2>1. PICK g \in Grants : Dashboard(g)
    BY <1>9
  <2>2. UNCHANGED <<queue, moving, msg, bridge>> /\ (UNCHANGED job \/ job' = [do |-> "service", g |-> g, content |-> Content(g)])
    BY <2>1 DEF Dashboard, Stage
  <2>3. JobQuiet
    BY <2>2 DEF JobQuiet, Acting
  <2>4. QED BY <1>2, <2>2, <2>3 DEF Tells
<1>10. QED BY <1>3, <1>4, <1>5, <1>6, <1>7, <1>8, <1>9, AlbumMoves DEF Stages

LEMMA WorldTalk ==
  ASSUME LawInv, TalkInv, World \/ Observe \/ Hear \/ (\E due \in SUBSET Timed : Tick(due)) \/ Confirm
  PROVE  TalkInv'
<1>1. IsBridge(bridge)
  BY DEF LawInv, LawBridge
<1>2. ASSUME Tells, UNCHANGED <<queue, moving, job>>,
             UNCHANGED bridge \/ (bridge'.answer = bridge.answer /\ bridge'.albums = bridge.albums)
      PROVE  TalkInv'
  BY <1>2, QuietStep DEF QueueQuiet, JobQuiet
<1>3. CASE Asks \/ TurnEnds \/ Focuses \/ DeskAnswers \/ DeskPrompts \/ Exits \/ Repeats \/ Switch \/ Hear
           \/ (\E g \in Grants : OwnerDenies(g) \/ OwnerGrants(g)) \/ (\E due \in SUBSET Timed : Tick(due))
  <2>1. UNCHANGED <<queue, moving, job, bridge, msg>>
    BY <1>3 DEF Asks, TurnEnds, Focuses, DeskAnswers, DeskPrompts, Exits, Repeats, Switch, Hear, OwnerDenies, OwnerGrants, Agent, Tick
  <2>2. QED BY <1>2, <2>1 DEF Tells
<1>4. CASE Confirm
  <2>1. UNCHANGED <<queue, moving, job, bridge>>
    BY <1>4 DEF Confirm
  <2>2. QED BY <1>2, <1>4, <2>1 DEF Tells
<1>5. CASE Observe
  <2>1. UNCHANGED <<queue, moving, job, msg>>
    BY <1>5 DEF Observe
  <2>2. PICK c : c = Observed(bridge, Head(news).kind, Head(news).status, Head(news).seq)
                 /\ c.answer = bridge.answer /\ c.albums = bridge.albums
    BY <1>1, ObservedBridge
  <2>3. bridge' = c
    BY <1>5, <2>2 DEF Observe
  <2>4. QED BY <1>2, <2>1, <2>2, <2>3 DEF Tells
<1>6. CASE OwnerActs
  <2>1. UNCHANGED <<queue, moving, job>> /\ bridge' = Invalidated(bridge) /\ Ends(Dropped, "dropped")
    BY <1>6 DEF OwnerActs
  <2>2. PICK c : c = Invalidated(bridge) /\ c.answer = None /\ c.albums = bridge.albums
    BY <1>1, InvalidatedBridge
  <2>3. Tells /\ JobQuiet /\ AnswerQuiet /\ MovingQuiet /\ QueueQuiet /\ bridge'.albums \subseteq bridge.albums
    BY <2>1, <2>2 DEF Tells, JobQuiet, AnswerQuiet, MovingQuiet, QueueQuiet
  <2>4. QED BY <2>3, QuietTalk
<1>7. CASE Restart
  BY <1>7, RestartTalk
<1>8. QED BY <1>3, <1>4, <1>5, <1>6, <1>7 DEF World

---------------------------------------------------------------------------
(* A tick that has an answer to look at has one.                           *)
TickInv == "answers" \in tick => job = None /\ bridge.answer # None

LEMMA AnswersFirst ==
  ASSUME NEW s \in {"denials", "typing", "output", "dashboard", "follow", "albums"}, Stage(s)
  PROVE  "answers" \notin tick
<1>1. \E j \in 2..7 : Order[j] = s
  BY DEF Order
<1>2. PICK j \in 2..7 : Order[j] = s
  BY <1>1
<1>3. Len(Order) = 7 /\ Order[1] = "answers"
  BY DEF Order
<1>4. 1 \in 1..Len(Order) /\ j \in 1..Len(Order) /\ 1 < j
  BY <1>3
<1>5. QED BY <1>2, <1>3, <1>4 DEF Stage

LEMMA TickStep ==
  ASSUME TickInv, Next
  PROVE  TickInv'
<1>1. CASE Jobs
  <2>1. job # None /\ UNCHANGED tick
    BY <1>1 DEF Jobs, JobDenied, JobFails, Press, PressUnmarked, SendKeys, Close, Forward, Prompt, StartAnswer,
       FocusEntry, TypeAnswer, Deliver, Service, SendPost, Job
  <2>2. QED BY <2>1 DEF TickInv
<1>2. CASE Stages
  <2>1. CASE PollAnswer
    BY <2>1 DEF PollAnswer, Over, TickInv
  <2>2. CASE ~PollAnswer
    <3>1. /\ \E s \in {"denials", "typing", "output", "dashboard", "follow", "albums"} : Stage(s)
          /\ tick' \subseteq tick
      BY <1>2, <2>2 DEF Stages, DropTyping, Output, DashboardOver, Follow, Notice, Dashboard, SendAlbum, Over
    <3>2. "answers" \notin tick
      BY <3>1, AnswersFirst
    <3>3. QED BY <3>1, <3>2 DEF TickInv
  <2>3. QED BY <2>1, <2>2
<1>3. CASE \E due \in SUBSET Timed : Tick(due)
  <2>1. PICK due \in SUBSET Timed : Tick(due)
    BY <1>3
  <2>2. job = None /\ UNCHANGED <<job, bridge>> /\ tick' = Always \cup due
    BY <2>1 DEF Tick, Idle
  <2>3. "answers" \notin Timed
    BY DEF Timed
  <2>4. "answers" \in Always => bridge.answer # None
    BY DEF Always
  <2>5. QED BY <2>2, <2>3, <2>4 DEF TickInv
<1>4. CASE Handle \/ Observe \/ (\E t \in moving : Result(t)) \/ OwnerActs \/ Restart
  <2>1. tick' = {}
    BY <1>4 DEF Handle, Observe, Result, OwnerActs, Restart, Idle
  <2>2. QED BY <2>1 DEF TickInv
<1>5. CASE \/ Hear \/ Telegram \/ (\E t \in moving : Transfer(t))
           \/ Asks \/ TurnEnds \/ Focuses \/ DeskAnswers \/ DeskPrompts \/ Exits \/ Repeats \/ Switch
           \/ \E g \in Grants : OwnerDenies(g) \/ OwnerGrants(g)
  <2>1. UNCHANGED <<tick, job, bridge>>
    BY <1>5 DEF Hear, Telegram, Writes, Poll, Confirm, Transfer, Asks, TurnEnds, Focuses, DeskAnswers, DeskPrompts, Exits,
       Repeats, Switch, OwnerDenies, OwnerGrants, Agent
  <2>2. QED BY <2>1 DEF TickInv
<1>6. QED BY <1>1, <1>2, <1>3, <1>4, <1>5 DEF Next, Transfers, World

---------------------------------------------------------------------------
(* The invariant, and what follows from it.                                *)
IInv == LawInv /\ TalkInv /\ TickInv

LEMMA InitInv ==
  ASSUME Init
  PROVE  IInv
<1>1. LawInv
  BY DEF Init, LawInv, LawBridge, LawJob, IsBridge, Fresh, Acting, ActsUnderGrant
<1>2. Len(msg) = 0 /\ msg \in Seq({}) /\ queue = <<>> /\ job = None /\ moving = {} /\ bridge.answer = None /\ bridge.albums = {}
  BY DEF Init, Fresh
<1>3. MsgInv
  BY <1>2 DEF MsgInv, Written, IsSeq, Waiting
<1>4. OnceInv
  BY <1>2 DEF OnceInv, Shaped, Places, Acting
<1>5. TickInv
  BY DEF Init, TickInv
<1>6. QED BY <1>1, <1>3, <1>4, <1>5 DEF IInv, TalkInv

LEMMA StepInv ==
  ASSUME IInv, Next
  PROVE  IInv'
<1>1. PollAnswer => bridge.answer # None
  BY DEF PollAnswer, Stage, IInv, TickInv
<1>2. TickInv'
  BY TickStep DEF IInv
<1>3. TalkInv'
  <2>1. CASE \E g \in Grants, kind \in Kinds : Writes(g, kind)
    BY <2>1, WritesTalk DEF IInv
  <2>2. CASE \E m \in 1..MaxMessages : Poll(m)
    BY <2>2, PollTalk DEF IInv
  <2>3. QED BY <1>1, <2>1, <2>2, JobsTalk, StagesTalk, HandleTalk, TransfersTalk, WorldTalk DEF IInv, Next, Telegram
<1>4. LawInv'
  <2>1. CASE (\E due \in SUBSET Timed : Tick(due)) \/ Hear \/ Telegram
    <3>1. Still /\ UNCHANGED <<bridge, job>>
      BY <2>1 DEF Tick, Hear, Telegram, Writes, Poll, Confirm
    <3>2. QED BY <3>1, SameLaw, StillLaw DEF IInv, LawInv
  <2>2. QED BY <1>1, <2>1, JobsLaw, StagesLaw, HandleLaw, ObserveLaw, TransfersLaw, WorldLaw DEF IInv, TalkInv, Next
<1>5. QED BY <1>2, <1>3, <1>4 DEF IInv

LEMMA StutterInv ==
  ASSUME IInv, UNCHANGED vars
  PROVE  IInv'
<1>1. LawInv'
  <2>1. UNCHANGED <<bridge, job, effect, grant, opt>>
    BY DEF vars
  <2>2. ActsUnderGrant'
    BY <2>1 DEF IInv, LawInv, ActsUnderGrant, Active
  <2>3. QED BY <2>1, <2>2, SameLaw DEF IInv, LawInv
<1>2. TalkInv'
  <2>1. UNCHANGED <<bridge, job, queue, moving, msg>>
    BY DEF vars
  <2>2. QED BY <2>1, QuietStep DEF IInv, Tells, JobQuiet, QueueQuiet
<1>3. TickInv'
  BY DEF vars, IInv, TickInv
<1>4. QED BY <1>1, <1>2, <1>3 DEF IInv

LEMMA Invariant == Spec => []IInv
<1>1. Init => IInv
  BY InitInv
<1>2. IInv /\ [Next]_vars => IInv'
  BY StepInv, StutterInv
<1>3. QED BY <1>1, <1>2, PTL DEF Spec

(* What a recipient does to an agent, by a press, a message, keys or a     *)
(* file, is done under the grant as it is at that moment, and never by a   *)
(* reader: a denial stops what waited for a screen, a slot or an entry     *)
(* (Sharing.Begin, as PrivateControl.effect and Tick ask it).              *)
THEOREM GuestsActUnderTheirGrant == Spec => []ActsUnderGrant
<1>1. IInv => ActsUnderGrant
  BY DEF IInv, LawInv
<1>2. QED BY <1>1, Invariant, PTL

(* No message acts twice, though Telegram delivers it again after a        *)
(* restart, the queue, an album, a download or an entry keeps it, and a    *)
(* failure or a denial may end it: PrivateControl refuses to act on what   *)
(* onPrivate marks as stale, and the jobs are taken once.                  *)
THEOREM AMessageActsOnce == Spec => []ActsOnce
<1>1. IInv => ActsOnce
  <2>1. SUFFICES ASSUME IInv, NEW m \in DOMAIN msg
                 PROVE  msg[m].acts <= 1
    BY DEF ActsOnce
  <2>2. m \in 1..Len(msg)
    BY <2>1 DEF IInv, TalkInv, MsgInv, Written, IsSeq
  <2>3. msg[m].acts \in {0, 1}
    BY <2>1, <2>2 DEF IInv, TalkInv, OnceInv, Placed
  <2>4. QED BY <2>3
<1>2. QED BY <1>1, Invariant, PTL

---------------------------------------------------------------------------
(* What the pane shows, and what is known of it.                           *)
IsPane(p) == p = [status |-> p.status, view |-> p.view, question |-> p.question, seq |-> p.seq]
PaneOK(p) == IsPane(p) /\ p.seq \in Nat /\ (p.status # "blocked" => p.question = 0)

(* The pane asks another question only with another count.                 *)
PaneMove(p, p2) ==
  /\ PaneOK(p2)
  /\ p2.seq = p.seq + 1 \/ (p2.seq = p.seq /\ p2.status = p.status /\ p2.question = p.question)

Latest(h, k) == IF h = <<>> THEN k ELSE h[Len(h)]
AgentOK(p, h, k, n) ==
  /\ PaneOK(p)
  /\ IsSeq(h) /\ \A i \in 1..Len(h) : h[i].seq \in 0..p.seq
  /\ k.seq \in 0..p.seq
  /\ Latest(h, k) = [status |-> p.status, seq |-> p.seq]
  /\ IsSeq(n) /\ \A i \in 1..Len(n) : n[i].seq \in 0..p.seq
AgentInv == AgentOK(pane, heard, known, news)

Moves == (\E next : PaneMove(pane, next) /\ Changes(next)) \/ Same

LEMMA ToMoves ==
  ASSUME PaneOK(pane), NEW status, NEW view, NEW q, status # "blocked" => q = 0,
         status = pane.status => q = pane.question
  PROVE  PaneMove(pane, To(status, view, q))
<1>1. PICK p : p = To(status, view, q)
  OBVIOUS
<1>2. p = [status |-> status, view |-> view, question |-> q, seq |-> pane.seq + (IF status = pane.status THEN 0 ELSE 1)]
  BY <1>1 DEF To
<1>3. p.status = status /\ p.question = q /\ IsPane(p)
  BY <1>2 DEF IsPane
<1>4. (status = pane.status => p.seq = pane.seq) /\ (status # pane.status => p.seq = pane.seq + 1)
  BY <1>2 DEF PaneOK
<1>5. QED BY <1>1, <1>3, <1>4 DEF PaneMove, PaneOK

LEMMA ViewMoves ==
  ASSUME PaneOK(pane), NEW view
  PROVE  PaneMove(pane, [pane EXCEPT !.view = view])
BY DEF PaneMove, PaneOK, IsPane

LEMMA InputMoves ==
  ASSUME PaneOK(pane), NEW status \in {"working", "idle", "exited"}, NEW view
  PROVE  PaneMove(pane, To(status, view, 0))
<1>1. status = pane.status => pane.question = 0
  BY DEF PaneOK
<1>2. QED BY <1>1, ToMoves

LEMMA TextMoves ==
  ASSUME PaneOK(pane), NEW by, NEW g, NEW rev, NEW kind, NEW meant, TextLands(by, g, rev, kind, meant)
  PROVE  Moves
<1>1. \/ Same \/ Changes(Works) \/ Changes([pane EXCEPT !.view = "overlay"])
  BY DEF TextLands
<1>2. QED BY <1>1, InputMoves, ViewMoves DEF Moves, Works

LEMMA KeyMoves ==
  ASSUME PaneOK(pane), NEW by, NEW g, NEW rev, NEW key, NEW meant, KeyLands(by, g, rev, key, meant)
  PROVE  Moves
<1>1. \/ Same \/ Changes(Works) \/ Changes(To("idle", "input", 0)) \/ Changes([pane EXCEPT !.view = "focusing"])
  BY DEF KeyLands
<1>2. QED BY <1>1, InputMoves, ViewMoves DEF Moves, Works

(* What is heard of the pane keeps up with it.                             *)
Longer(h, e, h2) ==
  /\ IsSeq(h2) /\ h2 # <<>> /\ h2[Len(h2)] = e
  /\ \A i \in 1..Len(h2) : h2[i] = e \/ (i \in 1..Len(h) /\ h2[i] = h[i])

LEMMA LongerSeq ==
  ASSUME NEW h, IsSeq(h), NEW e
  PROVE  Longer(h, e, Append(h, e))
<1>0. PICK h2 : h2 = Append(h, e)
  OBVIOUS
<1>1. PICK S : h \in Seq(S)
  BY DEF IsSeq
<1>2. h2 \in Seq(S \cup {e}) /\ Len(h2) = Len(h) + 1 /\ Len(h) \in Nat
  BY <1>0, <1>1
<1>3. h2[Len(h) + 1] = e /\ \A i \in 1..Len(h) : h2[i] = h[i]
  BY <1>0, <1>1
<1>4. \A i \in 1..Len(h2) : i \in 1..Len(h) \/ i = Len(h) + 1
  BY <1>2
<1>5. Longer(h, e, h2)
  BY <1>2, <1>3, <1>4 DEF IsSeq, Longer
<1>6. QED BY <1>0, <1>5

LEMMA ShorterSeq ==
  ASSUME NEW h, IsSeq(h), h # <<>>, NEW h2, h2 = Tail(h)
  PROVE  /\ IsSeq(h2) /\ Len(h) \in Nat /\ Len(h) >= 1 /\ Head(h) = h[1] /\ Len(h2) = Len(h) - 1
         /\ \A i \in 1..Len(h2) : i + 1 \in 1..Len(h) /\ h2[i] = h[i + 1]
         /\ h2 # <<>> => Len(h2) \in 1..Len(h2) /\ Len(h2) + 1 = Len(h)
<1>1. PICK S : h \in Seq(S)
  BY DEF IsSeq
<1>2. h2 \in Seq(S) /\ Len(h2) = Len(h) - 1 /\ Len(h) \in Nat /\ Len(h) >= 1 /\ Head(h) = h[1] /\ Len(h2) \in Nat
  BY <1>1
<1>3. \A i \in 1..Len(h2) : h2[i] = h[i + 1]
  BY <1>1
<1>4. \A i \in 1..Len(h2) : i + 1 \in 1..Len(h)
  BY <1>2
<1>5. h2 # <<>> => Len(h2) \in 1..Len(h2) /\ Len(h2) + 1 = Len(h)
  BY <1>2
<1>6. QED BY <1>2, <1>3, <1>4, <1>5 DEF IsSeq

LEMMA MovedAgent ==
  ASSUME AgentInv, Moves, UNCHANGED <<known, news>>
  PROVE  AgentInv' /\ PaneMove(pane, pane')
<1>1. PaneMove(pane, pane)
  BY DEF PaneMove, AgentInv, AgentOK
<1>2. CASE Same
  BY <1>1, <1>2 DEF Same, AgentInv, AgentOK, PaneOK, IsPane, Latest, IsSeq
<1>3. CASE \E next : PaneMove(pane, next) /\ Changes(next)
  <2>1. PICK p : PaneMove(pane, p) /\ Changes(p)
    BY <1>3
  <2>2. PICK h, k, n, h2 : h = heard /\ k = known /\ n = news /\ h2 = heard'
    OBVIOUS
  <2>3. AgentOK(pane, h, k, n) /\ pane' = p
    BY <2>1, <2>2 DEF AgentInv, Changes
  <2>4. pane.seq \in Nat /\ p.seq \in Nat /\ pane.seq <= p.seq
    BY <2>1, <2>3 DEF AgentOK, PaneMove, PaneOK
  <2>5. \A i : i \in 0..pane.seq => i \in 0..p.seq
    BY <2>4
  <2>6. AgentOK(p, h2, k, n)
    <3>1. CASE p.seq = pane.seq
      <4>1. h2 = h /\ p.status = pane.status
        BY <2>1, <2>2, <2>4, <3>1 DEF Changes, PaneMove
      <4>2. QED BY <2>1, <2>3, <2>5, <3>1, <4>1 DEF AgentOK, PaneMove, Latest
    <3>2. CASE p.seq # pane.seq
      <4>1. PICK e : e = [status |-> p.status, seq |-> p.seq]
        OBVIOUS
      <4>2. h2 = Append(h, e) /\ e.seq \in 0..p.seq
        BY <2>1, <2>2, <2>4, <3>2, <4>1 DEF Changes
      <4>3. IsSeq(h)
        BY <2>3 DEF AgentOK
      <4>4. Longer(h, e, h2)
        BY <4>2, <4>3, LongerSeq
      <4>5. \A i \in 1..Len(h2) : h2[i].seq \in 0..p.seq
        BY <2>3, <2>5, <4>2, <4>4 DEF AgentOK, Longer
      <4>6. k.seq \in 0..p.seq /\ IsSeq(n) /\ \A i \in 1..Len(n) : n[i].seq \in 0..p.seq
        BY <2>3, <2>5 DEF AgentOK
      <4>7. Latest(h2, k) = e /\ IsSeq(h2)
        BY <4>4 DEF Latest, Longer
      <4>8. PaneOK(p)
        BY <2>1 DEF PaneMove
      <4>9. QED BY <4>1, <4>5, <4>6, <4>7, <4>8 DEF AgentOK
    <3>3. QED BY <3>1, <3>2
  <2>7. AgentOK(pane', h2, known', news')
    BY <2>2, <2>3, <2>6
  <2>8. AgentInv'
    BY <2>2, <2>7 DEF AgentInv, AgentOK, PaneOK, IsPane, Latest, IsSeq
  <2>9. QED BY <2>1, <2>3, <2>8
<1>4. QED BY <1>2, <1>3 DEF Moves

LEMMA HearAgent ==
  ASSUME AgentInv, Hear
  PROVE  AgentInv' /\ PaneMove(pane, pane')
<1>1. PICK h, k, n, h2, e, n2 : h = heard /\ k = known /\ n = news /\ h2 = Tail(h) /\ e = Head(h)
                                /\ n2 = Append(n, [kind |-> "changed", status |-> e.status, seq |-> e.seq])
  OBVIOUS
<1>2. h # <<>> /\ heard' = h2 /\ known' = e /\ news' = n2 /\ pane' = pane
  BY <1>1 DEF Hear
<1>3. AgentOK(pane, h, k, n)
  BY <1>1 DEF AgentInv
<1>4. IsSeq(h) /\ IsSeq(n) /\ PaneOK(pane)
  BY <1>3 DEF AgentOK
<1>5. /\ IsSeq(h2) /\ Len(h) \in Nat /\ Len(h) >= 1 /\ Head(h) = h[1] /\ Len(h2) = Len(h) - 1
      /\ \A i \in 1..Len(h2) : i + 1 \in 1..Len(h) /\ h2[i] = h[i + 1]
      /\ h2 # <<>> => Len(h2) \in 1..Len(h2) /\ Len(h2) + 1 = Len(h)
  BY <1>1, <1>2, <1>4, ShorterSeq
<1>6. e.seq \in 0..pane.seq
  BY <1>1, <1>3, <1>5 DEF AgentOK
<1>7. Latest(h2, e) = Latest(h, k)
  <2>1. CASE h2 # <<>>
    BY <1>2, <1>5, <2>1 DEF Latest
  <2>2. CASE h2 = <<>>
    <3>1. Len(h2) = 0
      BY <2>2
    <3>2. Len(h) = 1
      BY <1>5, <3>1
    <3>3. h[Len(h)] = e
      BY <1>1, <1>5, <3>2
    <3>4. QED BY <1>2, <2>2, <3>3 DEF Latest
  <2>3. QED BY <2>1, <2>2
<1>8. PICK u : u = [kind |-> "changed", status |-> e.status, seq |-> e.seq]
  OBVIOUS
<1>9. Longer(n, u, n2) /\ u.seq = e.seq
  BY <1>1, <1>4, <1>8, LongerSeq
<1>10. \A i \in 1..Len(n2) : n2[i].seq \in 0..pane.seq
  BY <1>3, <1>6, <1>9 DEF AgentOK, Longer
<1>11. \A i \in 1..Len(h2) : h2[i].seq \in 0..pane.seq
  BY <1>3, <1>5 DEF AgentOK
<1>12. AgentOK(pane, h2, e, n2)
  BY <1>3, <1>4, <1>5, <1>6, <1>7, <1>9, <1>10, <1>11 DEF AgentOK, Longer
<1>13. AgentOK(pane', heard', known', news')
  BY <1>2, <1>12
<1>14. AgentInv'
  BY <1>13 DEF AgentInv, AgentOK, PaneOK, IsPane, Latest, IsSeq
<1>15. QED BY <1>2, <1>4, <1>14 DEF PaneMove

LEMMA NewsAgent ==
  ASSUME AgentInv, UNCHANGED <<pane, heard, known>>,
         \/ news # <<>> /\ news' = Tail(news)
         \/ \E u : u.seq = known.seq /\ news' = Append(news, u)
  PROVE  AgentInv' /\ PaneMove(pane, pane')
<1>1. PICK n, n2 : n = news /\ n2 = news'
  OBVIOUS
<1>2. AgentOK(pane, heard, known, n)
  BY <1>1 DEF AgentInv
<1>3. IsSeq(n) /\ PaneOK(pane)
  BY <1>2 DEF AgentOK
<1>4. IsSeq(n2) /\ \A i \in 1..Len(n2) : n2[i].seq \in 0..pane.seq
  <2>1. CASE n # <<>> /\ n2 = Tail(n)
    <3>1. IsSeq(n2) /\ \A i \in 1..Len(n2) : i + 1 \in 1..Len(n) /\ n2[i] = n[i + 1]
      BY <1>3, <2>1, ShorterSeq
    <3>2. QED BY <1>2, <3>1 DEF AgentOK
  <2>2. CASE \E u : u.seq = known.seq /\ n2 = Append(n, u)
    <3>1. PICK u : u.seq = known.seq /\ n2 = Append(n, u)
      BY <2>2
    <3>2. Longer(n, u, n2)
      BY <1>3, <3>1, LongerSeq
    <3>3. QED BY <1>2, <3>1, <3>2 DEF AgentOK, Longer
  <2>3. QED BY <1>1, <2>1, <2>2
<1>5. AgentOK(pane, heard, known, n2)
  BY <1>2, <1>4 DEF AgentOK
<1>6. AgentOK(pane', heard', known', news')
  BY <1>1, <1>5
<1>7. AgentInv'
  BY <1>6 DEF AgentInv, AgentOK, PaneOK, IsPane, Latest, IsSeq
<1>8. QED BY <1>3, <1>7 DEF PaneMove

LEMMA RestartAgent ==
  ASSUME AgentInv, Restart
  PROVE  AgentInv' /\ PaneMove(pane, pane')
<1>1. PaneOK(pane) /\ pane' = pane /\ heard' = <<>> /\ news' = <<>> /\ known' = [status |-> pane.status, seq |-> pane.seq]
  BY DEF Restart, AgentInv, AgentOK
<1>2. PICK k : k = [status |-> pane.status, seq |-> pane.seq]
  OBVIOUS
<1>3. IsSeq(<<>>) /\ Len(<<>>) = 0
  BY DEF IsSeq
<1>4. k.seq \in 0..pane.seq
  BY <1>1, <1>2 DEF PaneOK
<1>5. AgentOK(pane, <<>>, k, <<>>)
  BY <1>1, <1>2, <1>3, <1>4 DEF AgentOK, Latest
<1>6. AgentOK(pane', heard', known', news')
  BY <1>1, <1>2, <1>5
<1>7. AgentInv'
  BY <1>6 DEF AgentInv, AgentOK, PaneOK, IsPane, Latest, IsSeq
<1>8. QED BY <1>1, <1>7 DEF PaneMove

LEMMA AgentMoves ==
  ASSUME PaneOK(pane), NEW next, Agent(next), PaneMove(pane, next)
  PROVE  Moves /\ UNCHANGED <<known, news>>
BY DEF Agent, Moves

LEMMA AgentStep ==
  ASSUME AgentInv, Next
  PROVE  AgentInv' /\ PaneMove(pane, pane')
<1>1. PaneOK(pane)
  BY DEF AgentInv, AgentOK
<1>2. CASE Hear \/ Restart
  BY <1>2, HearAgent, RestartAgent
<1>3. CASE Observe \/ Repeats
  <2>1. UNCHANGED <<pane, heard, known>>
    BY <1>3 DEF Observe, Repeats
  <2>2. CASE Observe
    BY <2>1, <2>2, NewsAgent DEF Observe
  <2>3. CASE Repeats
    <3>1. PICK u : u = [kind |-> "changed", status |-> known.status, seq |-> known.seq]
      OBVIOUS
    <3>2. u.seq = known.seq /\ news' = Append(news, u)
      BY <2>3, <3>1 DEF Repeats
    <3>3. QED BY <2>1, <3>2, NewsAgent
  <2>4. QED BY <1>3, <2>2, <2>3
<1>4. CASE \/ JobDenied \/ JobFails \/ Service \/ (job # None /\ job.do = "send" /\ \E p \in job.to : SendPost(p))
           \/ Stages \/ (\E due \in SUBSET Timed : Tick(due)) \/ Handle \/ Transfers \/ Telegram \/ Switch
           \/ \E g \in Grants : OwnerDenies(g) \/ OwnerGrants(g)
  <2>1. Same /\ UNCHANGED <<known, news>>
    BY <1>4 DEF JobDenied, JobFails, Service, SendPost, Stages, PollAnswer, DropTyping, Output, DashboardOver, Follow, Notice,
       Dashboard, SendAlbum, Stage, Tick, Handle, Transfers, Transfer, Result, Telegram, Writes, Poll, Confirm,
       Switch, OwnerDenies, OwnerGrants, agent, Same
  <2>2. QED BY <2>1, MovedAgent DEF Moves
<1>5. CASE Press \/ PressUnmarked \/ SendKeys \/ Close \/ Forward \/ Prompt \/ StartAnswer \/ FocusEntry \/ TypeAnswer \/ Deliver
  <2>1. UNCHANGED <<known, news>>
    BY <1>5 DEF Press, PressUnmarked, SendKeys, Close, Forward, Prompt, StartAnswer, FocusEntry, TypeAnswer, Deliver, Job
  <2>2. Moves
    <3>1. CASE Press \/ PressUnmarked \/ SendKeys \/ FocusEntry
      <4>1. \E by, g, rev, key, meant : KeyLands(by, g, rev, key, meant)
        BY <3>1 DEF Press, PressUnmarked, SendKeys, FocusEntry
      <4>2. QED BY <1>1, <4>1, KeyMoves
    <3>2. CASE TypeAnswer \/ Deliver
      <4>1. \E by, g, rev, kind, meant : TextLands(by, g, rev, kind, meant)
        BY <3>2 DEF TypeAnswer, Deliver
      <4>2. QED BY <1>1, <4>1, TextMoves
    <3>3. CASE Forward \/ Prompt
      <4>1. Same \/ \E by, g, rev, kind, meant : TextLands(by, g, rev, kind, meant)
        BY <3>3 DEF Forward, Prompt
      <4>2. QED BY <1>1, <4>1, TextMoves DEF Moves
    <3>4. CASE StartAnswer
      BY <3>4 DEF StartAnswer, Moves
    <3>5. CASE Close
      <4>1. Changes(To("exited", "input", 0))
        BY <3>5 DEF Close
      <4>2. QED BY <1>1, <4>1, InputMoves DEF Moves
    <3>6. QED BY <1>5, <3>1, <3>2, <3>3, <3>4, <3>5
  <2>3. QED BY <2>1, <2>2, MovedAgent
<1>6. CASE Asks \/ TurnEnds \/ Focuses \/ DeskAnswers \/ DeskPrompts \/ Exits
  <2>1. \E next : Agent(next) /\ PaneMove(pane, next)
    <3>1. CASE Asks
      <4>1. PICK view : Agent(To("blocked", view, spent.questions + 1)) /\ pane.status = "working"
        BY <3>1 DEF Asks
      <4>2. PaneMove(pane, To("blocked", view, spent.questions + 1))
        BY <1>1, <4>1, ToMoves
      <4>3. QED BY <4>1, <4>2
    <3>2. CASE TurnEnds
      BY <1>1, <3>2, InputMoves DEF TurnEnds
    <3>3. CASE Focuses
      BY <1>1, <3>3, ViewMoves DEF Focuses
    <3>4. CASE DeskAnswers
      BY <1>1, <3>4, InputMoves DEF DeskAnswers, Works
    <3>5. CASE DeskPrompts
      BY <1>1, <3>5, InputMoves DEF DeskPrompts, Works
    <3>6. CASE Exits
      BY <1>1, <3>6, InputMoves DEF Exits
    <3>7. QED BY <1>6, <3>1, <3>2, <3>3, <3>4, <3>5, <3>6
  <2>2. QED BY <1>1, <2>1, AgentMoves, MovedAgent
<1>7. CASE OwnerActs
  <2>1. Changes(Works) /\ UNCHANGED <<known, news>>
    BY <1>7 DEF OwnerActs
  <2>2. QED BY <1>1, <2>1, InputMoves, MovedAgent DEF Works, Moves
<1>8. QED BY <1>2, <1>3, <1>4, <1>5, <1>6, <1>7 DEF Next, Jobs, World

---------------------------------------------------------------------------
(* What a chat, a post and a job say of the question, beside the pane.     *)
Matches(seq, q, p) == seq \in 0..p.seq /\ (seq = p.seq => q = p.question)
SeenOK(s, seq, p) == s.look \in Nat /\ seq \in 0..s.look /\ Matches(s.look, s.question, p)

IsChat(c) ==
  c = [last |-> c.last, button |-> c.button, closing |-> c.closing, ask |-> c.ask, phone |-> c.phone, shown |-> c.shown,
       told |-> c.told, noticed |-> c.noticed, since |-> c.since, dash |-> c.dash, service |-> c.service]
ChatOK(c, p) == IsChat(c) /\ (c.button # None => Matches(c.button.seq, c.button.question, p))
ChatsOK(c, p) == c = [g \in Grants |-> c[g]] /\ \A g \in Grants : ChatOK(c[g], p)

IsPost(x) == x = [status |-> x.status, seq |-> x.seq, grants |-> x.grants, captured |-> x.captured, attempts |-> x.attempts]
PostOK(x, p) ==
  x # None => /\ IsPost(x) /\ x.seq \in 0..p.seq
              /\ x.captured # None => SeenOK(x.captured, x.seq, p)
SendOK(j, p) == j # None /\ j.do = "send" => SeenOK(j.screen, j.seq, p)
Meant(j, p) ==
  /\ j.do \in {"focus", "type"} => j.meant = p.question
  /\ j.do \in {"choice", "pencil"} => j.late \/ j.meant = p.question

(* The pane moves on: what was shown of an older count is older still.     *)
LEMMA MatchesMoves ==
  ASSUME NEW p, NEW p2, PaneOK(p), PaneMove(p, p2), NEW seq, NEW q, Matches(seq, q, p)
  PROVE  Matches(seq, q, p2)
<1>1. p.seq \in Nat /\ p2.seq \in Nat /\ (p2.seq = p.seq + 1 \/ (p2.seq = p.seq /\ p2.question = p.question))
  BY DEF PaneOK, PaneMove
<1>2. seq \in 0..p.seq /\ (seq = p.seq => q = p.question)
  BY DEF Matches
<1>3. QED BY <1>1, <1>2 DEF Matches

LEMMA SeenMoves ==
  ASSUME NEW p, NEW p2, PaneOK(p), PaneMove(p, p2), NEW s, NEW seq, SeenOK(s, seq, p)
  PROVE  SeenOK(s, seq, p2)
BY MatchesMoves DEF SeenOK

LEMMA ChatsMove ==
  ASSUME NEW p, NEW p2, PaneOK(p), PaneMove(p, p2), NEW c, ChatsOK(c, p)
  PROVE  ChatsOK(c, p2)
<1>1. \A g \in Grants : ChatOK(c[g], p2)
  BY MatchesMoves DEF ChatsOK, ChatOK
<1>2. QED BY <1>1 DEF ChatsOK

LEMMA PostMoves ==
  ASSUME NEW p, NEW p2, PaneOK(p), PaneMove(p, p2), NEW x, PostOK(x, p)
  PROVE  PostOK(x, p2)
<1>1. p.seq \in Nat /\ p2.seq \in Nat /\ p.seq <= p2.seq
  BY DEF PaneOK, PaneMove
<1>2. \A i : i \in 0..p.seq => i \in 0..p2.seq
  BY <1>1
<1>3. QED BY <1>2, SeenMoves DEF PostOK

LEMMA SendMoves ==
  ASSUME NEW p, NEW p2, PaneOK(p), PaneMove(p, p2), NEW j, SendOK(j, p)
  PROVE  SendOK(j, p2)
BY SeenMoves DEF SendOK

(* A post that has just been asked for, and a screen that is just read.    *)
LEMMA NewPost ==
  ASSUME NEW p, NEW status, NEW seq \in 0..p.seq
  PROVE  PostOK(Post(status, seq), p)
<1>1. PICK x : x = Post(status, seq)
  OBVIOUS
<1>2. IsPost(x) /\ x.seq = seq /\ x.captured = None
  BY <1>1 DEF Post, IsPost
<1>3. QED BY <1>1, <1>2 DEF PostOK

LEMMA NewScreen ==
  ASSUME PaneOK(pane), NEW seq \in 0..pane.seq
  PROVE  SeenOK(Screen, seq, pane)
<1>1. PICK s : s = Screen
  OBVIOUS
<1>2. s.look = pane.seq /\ s.question = pane.question
  BY <1>1 DEF Screen
<1>3. QED BY <1>1, <1>2 DEF SeenOK, Matches, PaneOK

(* The buttons of a post show the question of its screen.                  *)
LEMMA ButtonsMatch ==
  ASSUME NEW p, PaneOK(p), NEW s, NEW seq, SeenOK(s, seq, p)
  PROVE  Matches(seq, s.question, p)
<1>1. p.seq \in Nat /\ s.look \in Nat /\ seq \in 0..s.look /\ s.look \in 0..p.seq /\ (s.look = p.seq => s.question = p.question)
  BY DEF PaneOK, SeenOK, Matches
<1>2. seq \in 0..p.seq /\ (seq = p.seq => s.look = p.seq)
  BY <1>1
<1>3. QED BY <1>1, <1>2 DEF Matches

---------------------------------------------------------------------------
(* Chats: what a step leaves, and what it takes away.                      *)

LEMMA OneChat ==
  ASSUME NEW p, NEW c, ChatsOK(c, p), NEW h, NEW k, h \in Grants => ChatOK(k, p), NEW c2, c2 = [c EXCEPT ![h] = k]
  PROVE  ChatsOK(c2, p)
<1>1. c = [g \in Grants |-> c[g]]
  BY DEF ChatsOK
<1>2. \A g \in Grants : c2[g] = IF g = h THEN k ELSE c[g]
  BY <1>1
<1>3. c2 = [g \in Grants |-> c2[g]]
  BY <1>1
<1>4. QED BY <1>2, <1>3 DEF ChatsOK

LEMMA ChatParts ==
  ASSUME NEW p, NEW c, ChatsOK(c, p), NEW g \in Grants
  PROVE  ChatOK(c[g], p)
BY DEF ChatsOK

LEMMA WithoutButtonsOK ==
  ASSUME NEW p, NEW c, ChatsOK(c, p)
  PROVE  ChatsOK(WithoutButtons(c), p)
<1>1. PICK c2 : c2 = WithoutButtons(c)
  OBVIOUS
<1>2. c2 = [g \in Grants |-> [c[g] EXCEPT !.button = None, !.closing = {}]]
  BY <1>1 DEF WithoutButtons
<1>3. ASSUME NEW g \in Grants
      PROVE  ChatOK(c2[g], p)
  <2>1. PICK a, k : a = c[g] /\ k = c2[g]
    OBVIOUS
  <2>2. k = [a EXCEPT !.button = None, !.closing = {}] /\ IsChat(a)
    BY <1>2, <2>1, ChatParts DEF ChatOK
  <2>3. IsChat(k) /\ k.button = None
    BY <2>2 DEF IsChat
  <2>4. QED BY <2>1, <2>3 DEF ChatOK
<1>4. c2 = [g \in Grants |-> c2[g]]
  BY <1>2
<1>5. QED BY <1>1, <1>3, <1>4 DEF ChatsOK

LEMMA RepostOK ==
  ASSUME NEW p, NEW c, ChatsOK(c, p), NEW b
  PROVE  ChatsOK(Repost(c, b), p)
<1>1. PICK c2 : c2 = Repost(c, b)
  OBVIOUS
<1>2. /\ c2 = [g \in Grants |-> c2[g]]
      /\ \A g \in Grants : c2[g] = c[g] \/ c2[g] = [c[g] EXCEPT !.last = None]
  BY <1>1 DEF Repost
<1>3. ASSUME NEW g \in Grants
      PROVE  ChatOK(c2[g], p)
  <2>1. PICK a, k : a = c[g] /\ k = c2[g]
    OBVIOUS
  <2>2. (k = a \/ k = [a EXCEPT !.last = None]) /\ ChatOK(a, p)
    BY <1>2, <2>1, ChatParts
  <2>3. IsChat(k) /\ k.button = a.button
    BY <2>2 DEF ChatOK, IsChat
  <2>4. QED BY <2>1, <2>2, <2>3 DEF ChatOK
<1>4. QED BY <1>1, <1>2, <1>3 DEF ChatsOK

LEMMA StartsChats ==
  ASSUME ChatsOK(chat, pane), NEW m, NEW g, NEW rev, NEW next, Starts(m, g, rev, next)
  PROVE  ChatsOK(chat', pane)
<1>1. chat' = chat \/ chat' = WithoutButtons(chat)
  BY DEF Starts
<1>2. QED BY <1>1, WithoutButtonsOK

LEMMA HandleChats ==
  ASSUME TalkInv, ChatsOK(chat, pane), Handle
  PROVE  ChatsOK(chat', pane)
<1>1. PICK m : m = Head(queue)
  OBVIOUS
<1>2. msg[m].kind \in Kinds
  BY <1>1, HandledMessage DEF Handle, TalkInv
<1>3. \A fate : Told(m, fate) => ChatsOK(chat', pane)
  BY DEF Told
<1>4. \A g, rev, next : Starts(m, g, rev, next) => ChatsOK(chat', pane)
  BY StartsChats
<1>5. CASE msg[m].kind \in {"choice", "pencil"}
  <2>1. PressOf(m)
    BY <1>1, <1>5 DEF Handle
  <2>2. PICK h, b : h = msg[m].g /\ b = chat[h].button
    OBVIOUS
  <2>3. \/ Told(m, "stale")
        \/ Starts(m, h, b.rev, Act(msg[m].kind, "dialog", b.question))
        \/ chat' = [chat EXCEPT ![h].button = None]
    BY <2>1, <2>2 DEF PressOf
  <2>4. ASSUME chat' = [chat EXCEPT ![h].button = None]
        PROVE  ChatsOK(chat', pane)
    <3>1. PICK a, k : a = chat[h] /\ k = [a EXCEPT !.button = None]
      OBVIOUS
    <3>2. chat' = [chat EXCEPT ![h] = k]
      BY <2>4, <3>1
    <3>3. ASSUME h \in Grants
          PROVE  ChatOK(k, pane)
      <4>1. IsChat(a)
        BY <3>1, <3>3, ChatParts DEF ChatOK
      <4>2. IsChat(k) /\ k.button = None
        BY <3>1, <4>1 DEF IsChat
      <4>3. QED BY <4>2 DEF ChatOK
    <3>4. QED BY <3>2, <3>3, OneChat
  <2>5. QED BY <1>3, <1>4, <2>3, <2>4
<1>6. CASE msg[m].kind = "confirm"
  <2>1. PressClose(m)
    BY <1>1, <1>6 DEF Handle
  <2>2. Told(m, "stale") \/ \E g, rev, next : Starts(m, g, rev, next)
    BY <2>1 DEF PressClose
  <2>3. QED BY <1>3, <1>4, <2>2
<1>7. CASE msg[m].kind \in {"pause", "resume"}
  <2>1. Local(m)
    BY <1>1, <1>7 DEF Handle
  <2>2. PICK h : h = msg[m].g
    OBVIOUS
  <2>3. \/ \E fate : Told(m, fate)
        \/ UNCHANGED chat
        \/ chat' = [Repost(chat, bridge') EXCEPT ![h].since = IF known.status = "blocked" THEN @ ELSE pane.seq]
    BY <2>1, <2>2 DEF Local
  <2>4. ASSUME chat' = [Repost(chat, bridge') EXCEPT ![h].since = IF known.status = "blocked" THEN @ ELSE pane.seq]
        PROVE  ChatsOK(chat', pane)
    <3>1. PICK c : c = Repost(chat, bridge') /\ ChatsOK(c, pane)
      BY RepostOK
    <3>2. PICK a, k : a = c[h] /\ k = [a EXCEPT !.since = IF known.status = "blocked" THEN a.since ELSE pane.seq]
      OBVIOUS
    <3>3. chat' = [c EXCEPT ![h] = k]
      BY <2>4, <3>1, <3>2
    <3>4. ASSUME h \in Grants
          PROVE  ChatOK(k, pane)
      <4>1. ChatOK(a, pane)
        BY <3>1, <3>2, <3>4, ChatParts
      <4>2. IsChat(k) /\ k.button = a.button
        BY <3>2, <4>1 DEF IsChat, ChatOK
      <4>3. QED BY <4>1, <4>2 DEF ChatOK
    <3>5. QED BY <3>1, <3>3, <3>4, OneChat
  <2>5. QED BY <1>3, <2>3, <2>4
<1>8. CASE msg[m].kind \in {"plain", "keys", "usage", "screen", "close", "file", "git", "part"}
  <2>1. Command(m)
    BY <1>1, <1>8 DEF Handle
  <2>2. PICK h, n, rev : h = msg[m].g /\ n = spent.minted + 1 /\ rev = grant[h].rev
    OBVIOUS
  <2>3. \/ \E fate : Told(m, fate)
        \/ \E g, r, next : Starts(m, g, r, next)
        \/ UNCHANGED chat
        \/ chat' = [chat EXCEPT ![h].closing = @ \cup {[n |-> n, rev |-> rev]}, ![h].ask = n]
    <3>1. CASE msg[m].kind = "plain"
      BY <2>1, <2>2, <3>1 DEF Command, Plain
    <3>2. CASE msg[m].kind = "keys"
      BY <2>1, <2>2, <3>2 DEF Command
    <3>3. CASE msg[m].kind = "usage"
      BY <2>1, <2>2, <3>3 DEF Command
    <3>4. CASE msg[m].kind = "screen"
      BY <2>1, <2>2, <3>4 DEF Command
    <3>5. CASE msg[m].kind = "close"
      BY <2>1, <2>2, <3>5 DEF Command
    <3>6. CASE msg[m].kind \in {"file", "git"}
      BY <2>1, <2>2, <3>6 DEF Command
    <3>7. CASE msg[m].kind = "part"
      BY <2>1, <2>2, <3>7 DEF Command
    <3>8. QED BY <1>8, <3>1, <3>2, <3>3, <3>4, <3>5, <3>6, <3>7
  <2>4. ASSUME chat' = [chat EXCEPT ![h].closing = @ \cup {[n |-> n, rev |-> rev]}, ![h].ask = n]
        PROVE  ChatsOK(chat', pane)
    <3>1. PICK a, k : a = chat[h] /\ k = [a EXCEPT !.closing = a.closing \cup {[n |-> n, rev |-> rev]}]
      OBVIOUS
    <3>2. PICK l : l = [k EXCEPT !.ask = n]
      OBVIOUS
    <3>3. PICK c : c = [chat EXCEPT ![h] = k]
      OBVIOUS
    <3>4. ASSUME h \in Grants
          PROVE  ChatOK(k, pane) /\ ChatOK(l, pane)
      <4>1. ChatOK(a, pane)
        BY <3>1, <3>4, ChatParts
      <4>2. IsChat(k) /\ k.button = a.button
        BY <3>1, <4>1 DEF IsChat, ChatOK
      <4>3. IsChat(l) /\ l.button = a.button
        BY <3>2, <4>2 DEF IsChat
      <4>4. QED BY <4>1, <4>2, <4>3 DEF ChatOK
    <3>5. ChatsOK(c, pane)
      BY <3>3, <3>4, OneChat
    <3>6. chat' = [c EXCEPT ![h] = l]
      BY <2>4, <3>1, <3>2, <3>3 DEF ChatsOK
    <3>7. QED BY <3>4, <3>5, <3>6, OneChat
  <2>5. QED BY <1>3, <1>4, <2>3, <2>4
<1>9. QED BY <1>2, <1>5, <1>6, <1>7, <1>8 DEF Kinds, Presses, Reads

(* A post puts its buttons in a chat, or takes away those that stood.      *)
LEMMA SendPostChats ==
  ASSUME PaneOK(pane), ChatsOK(chat, pane), SendOK(job, pane), NEW q, SendPost(q)
  PROVE  ChatsOK(chat', pane)
<1>1. PICK h, rev : h = q[1] /\ rev = q[2]
  OBVIOUS
<1>2. SeenOK(job.screen, job.seq, pane)
  BY DEF SendPost, SendOK
<1>3. PICK b : b = Buttons(h, rev)
  OBVIOUS
<1>4. b # None => Matches(b.seq, b.question, pane)
  <2>1. b = None \/ b = [n |-> spent.minted + 1, rev |-> rev, seq |-> job.seq, question |-> job.screen.question, entry |-> job.screen.view = "entry"]
    BY <1>3 DEF Buttons
  <2>2. b # None => b.seq = job.seq /\ b.question = job.screen.question
    BY <2>1
  <2>3. QED BY <1>2, <2>2, ButtonsMatch
<1>5. \/ UNCHANGED chat
      \/ chat' = [chat EXCEPT ![h].button = None]
      \/ chat' = [chat EXCEPT ![h].last = [look |-> job.screen.look, rev |-> rev], ![h].shown = job.screen.look, ![h].button = b,
                              ![h].phone = IF b = None THEN @ ELSE [n |-> b.n, entry |-> b.entry]]
  BY <1>1, <1>3 DEF SendPost, Posted
<1>6. CASE chat' = [chat EXCEPT ![h].button = None]
  <2>1. PICK a, k : a = chat[h] /\ k = [a EXCEPT !.button = None]
    OBVIOUS
  <2>2. chat' = [chat EXCEPT ![h] = k]
    BY <1>6, <2>1
  <2>3. ASSUME h \in Grants
        PROVE  ChatOK(k, pane)
    <3>1. IsChat(a)
      BY <2>1, <2>3, ChatParts DEF ChatOK
    <3>2. IsChat(k) /\ k.button = None
      BY <2>1, <3>1 DEF IsChat
    <3>3. QED BY <3>2 DEF ChatOK
  <2>4. QED BY <2>2, <2>3, OneChat
<1>7. CASE chat' = [chat EXCEPT ![h].last = [look |-> job.screen.look, rev |-> rev], ![h].shown = job.screen.look, ![h].button = b,
                              ![h].phone = IF b = None THEN @ ELSE [n |-> b.n, entry |-> b.entry]]
  <2>1. PICK c, c2, l, look : c = chat /\ c2 = chat' /\ l = [look |-> job.screen.look, rev |-> rev] /\ look = job.screen.look
    OBVIOUS
  <2>2. c = [g \in Grants |-> c[g]]
    BY <2>1 DEF ChatsOK
  <2>3. PICK d : d = [n |-> b.n, entry |-> b.entry]
    OBVIOUS
  <2>4. c2 = [c EXCEPT ![h].last = l, ![h].shown = look, ![h].button = b, ![h].phone = IF b = None THEN @ ELSE d]
    BY <1>7, <2>1, <2>3
  <2>5. c2 = [g \in Grants |-> c2[g]] /\ \A g \in Grants : g # h => c2[g] = c[g]
    BY <2>2, <2>4
  <2>6. ASSUME h \in Grants
        PROVE  ChatOK(c2[h], pane)
    <3>1. PICK a, k : a = c[h] /\ k = c2[h]
      OBVIOUS
    <3>2. PICK phone : phone = IF b = None THEN a.phone ELSE d
      OBVIOUS
    <3>3. k = [a EXCEPT !.last = l, !.shown = look, !.button = b, !.phone = phone]
      BY <2>2, <2>4, <2>6, <3>1, <3>2
    <3>4. IsChat(a)
      BY <2>1, <2>6, <3>1, ChatParts DEF ChatOK
    <3>5. IsChat(k) /\ k.button = b
      BY <3>3, <3>4 DEF IsChat
    <3>6. QED BY <1>4, <3>1, <3>5 DEF ChatOK
  <2>7. QED BY <2>1, <2>5, <2>6, ChatParts DEF ChatsOK
<1>8. QED BY <1>5, <1>6, <1>7

(* A step that leaves the buttons of all chats, or takes some away.        *)
LEMMA KeptChats ==
  ASSUME NEW p, NEW c, ChatsOK(c, p), NEW c2, c2 = [g \in Grants |-> c2[g]],
         \A g \in Grants : IsChat(c[g]) => IsChat(c2[g]) /\ c2[g].button \in {None, c[g].button}
  PROVE  ChatsOK(c2, p)
<1>1. ASSUME NEW g \in Grants
      PROVE  ChatOK(c2[g], p)
  <2>1. ChatOK(c[g], p)
    BY ChatParts
  <2>2. QED BY <2>1 DEF ChatOK
<1>2. QED BY <1>1 DEF ChatsOK

LEMMA StageChats ==
  ASSUME ChatsOK(chat, pane), (\E g \in Grants : Notice(g) \/ Dashboard(g) \/ OwnerGrants(g)) \/ Service \/ Restart
  PROVE  ChatsOK(chat', pane)
<1>1. PICK c, c2 : c = chat /\ c2 = chat'
  OBVIOUS
<1>2. c = [h \in Grants |-> c[h]]
  BY <1>1 DEF ChatsOK
<1>3. CASE \E g \in Grants : Notice(g)
  <2>1. PICK g \in Grants : Notice(g)
    BY <1>3
  <2>2. \/ c2 = [c EXCEPT ![g].noticed = grant[g].rev, ![g].button = None, ![g].closing = {}, ![g].told = grant[g].rev]
        \/ c2 = [c EXCEPT ![g].noticed = grant[g].rev, ![g].button = None, ![g].closing = {}]
    BY <1>1, <2>1 DEF Notice
  <2>3. c2 = [h \in Grants |-> c2[h]] /\ \A h \in Grants : h # g => c2[h] = c[h]
    BY <1>2, <2>2
  <2>4. \/ c2[g] = [c[g] EXCEPT !.noticed = grant[g].rev, !.button = None, !.closing = {}, !.told = grant[g].rev]
        \/ c2[g] = [c[g] EXCEPT !.noticed = grant[g].rev, !.button = None, !.closing = {}]
    BY <1>2, <2>2
  <2>5. PICK a, k : a = c[g] /\ k = c2[g]
    OBVIOUS
  <2>6. IsChat(a) => IsChat(k) /\ k.button = None
    BY <2>4, <2>5 DEF IsChat
  <2>7. QED BY <1>1, <2>3, <2>5, <2>6, KeptChats
<1>4. CASE \E g \in Grants : Dashboard(g) \/ OwnerGrants(g)
  <2>1. PICK g \in Grants : Dashboard(g) \/ OwnerGrants(g)
    BY <1>4
  <2>2. \/ c2 = c
        \/ c2 = [c EXCEPT ![g].service = "creating"]
        \/ c2 = [c EXCEPT ![g].dash = Content(g)]
        \/ c2 = [c EXCEPT ![g].since = pane.seq]
    BY <1>1, <2>1 DEF Dashboard, OwnerGrants
  <2>3. c2 = [h \in Grants |-> c2[h]] /\ \A h \in Grants : h # g => c2[h] = c[h]
    BY <1>2, <2>2
  <2>4. \/ c2[g] = c[g]
        \/ c2[g] = [c[g] EXCEPT !.service = "creating"]
        \/ c2[g] = [c[g] EXCEPT !.dash = Content(g)]
        \/ c2[g] = [c[g] EXCEPT !.since = pane.seq]
    BY <1>2, <2>2
  <2>5. PICK a, k : a = c[g] /\ k = c2[g]
    OBVIOUS
  <2>6. IsChat(a) => IsChat(k) /\ k.button = a.button
    BY <2>4, <2>5 DEF IsChat
  <2>7. QED BY <1>1, <2>3, <2>5, <2>6, KeptChats
<1>5. CASE Service
  <2>1. PICK g : g = job.g
    OBVIOUS
  <2>2. \/ c2 = c
        \/ c2 = [c EXCEPT ![g].service = "there", ![g].dash = IF Content(g) = job.content THEN job.content ELSE @]
    BY <1>1, <1>5, <2>1 DEF Service
  <2>3. c2 = [h \in Grants |-> c2[h]] /\ \A h \in Grants : h # g => c2[h] = c[h]
    BY <1>2, <2>2
  <2>4. g \in Grants => \/ c2[g] = c[g]
                        \/ \E d : c2[g] = [c[g] EXCEPT !.service = "there", !.dash = d]
    BY <1>2, <2>2
  <2>5. PICK a, k : a = c[g] /\ k = c2[g]
    OBVIOUS
  <2>6. g \in Grants /\ IsChat(a) => IsChat(k) /\ k.button = a.button
    BY <2>4, <2>5 DEF IsChat
  <2>7. QED BY <1>1, <2>3, <2>5, <2>6, KeptChats
<1>6. CASE Restart
  <2>1. PICK kept \in SUBSET Grants :
          c2 = [g \in Grants |-> [c[g] EXCEPT !.button = None, !.closing = {}, !.noticed = 0, !.since = pane.seq,
                                             !.last = IF g \in kept THEN @ ELSE None]]
    BY <1>1, <1>6 DEF Restart
  <2>2. c2 = [g \in Grants |-> c2[g]]
    BY <2>1
  <2>3. ASSUME NEW g \in Grants
        PROVE  IsChat(c[g]) => IsChat(c2[g]) /\ c2[g].button = None
    <3>1. PICK a, k, l : a = c[g] /\ k = c2[g] /\ l = IF g \in kept THEN a.last ELSE None
      OBVIOUS
    <3>2. k = [a EXCEPT !.button = None, !.closing = {}, !.noticed = 0, !.since = pane.seq, !.last = l]
      BY <2>1, <3>1
    <3>3. IsChat(a) => IsChat(k) /\ k.button = None
      BY <3>2 DEF IsChat
    <3>4. QED BY <3>1, <3>3
  <2>4. QED BY <1>1, <2>2, <2>3, KeptChats
<1>7. QED BY <1>3, <1>4, <1>5, <1>6

LEMMA ChatsStep ==
  ASSUME AgentInv, TalkInv, ChatsOK(chat, pane), SendOK(job, pane), Next
  PROVE  ChatsOK(chat', pane')
<1>1. PaneOK(pane)
  BY DEF AgentInv, AgentOK
<1> SUFFICES ChatsOK(chat', pane)
  <2>1. PICK c, p2 : c = chat' /\ p2 = pane'
    OBVIOUS
  <2>2. PaneMove(pane, p2)
    BY <2>1, AgentStep
  <2>3. QED BY <1>1, <2>1, <2>2, ChatsMove
<1>2. CASE \/ JobDenied \/ JobFails \/ PressUnmarked \/ SendKeys \/ Close \/ Forward \/ Prompt \/ StartAnswer \/ FocusEntry
           \/ TypeAnswer \/ Deliver \/ PollAnswer \/ DropTyping \/ Output \/ DashboardOver \/ (\E a \in bridge.albums : SendAlbum(a))
           \/ (\E due \in SUBSET Timed : Tick(due)) \/ Observe \/ Hear \/ Telegram \/ Repeats \/ Switch \/ (\E g \in Grants : OwnerDenies(g))
  <2>1. UNCHANGED chat
    BY <1>2 DEF JobDenied, JobFails, PressUnmarked, SendKeys, Close, Forward, Prompt, StartAnswer, FocusEntry, TypeAnswer,
       Deliver, PollAnswer, DropTyping, Output, DashboardOver, SendAlbum, Tick, Observe, Hear, Telegram, Writes, Poll,
       Confirm, Repeats, Switch, OwnerDenies
  <2>2. QED BY <2>1
<1>3. CASE Asks \/ TurnEnds \/ Focuses \/ DeskAnswers \/ DeskPrompts \/ Exits
  <2>1. \E next : Agent(next)
    BY <1>3 DEF Asks, TurnEnds, Focuses, DeskAnswers, DeskPrompts, Exits
  <2>2. UNCHANGED chat
    BY <2>1 DEF Agent
  <2>3. QED BY <2>2
<1>4. CASE Press
  <2>1. chat' = Repost(chat, bridge')
    BY <1>4 DEF Press
  <2>2. QED BY <2>1, RepostOK
<1>5. CASE Service \/ Restart \/ \E g \in Grants : Notice(g) \/ Dashboard(g) \/ OwnerGrants(g)
  BY <1>5, StageChats
<1>6. CASE job # None /\ job.do = "send" /\ \E p \in job.to : SendPost(p)
  BY <1>1, <1>6, SendPostChats
<1>7. CASE Follow \/ OwnerActs
  <2>1. UNCHANGED chat \/ chat' = WithoutButtons(chat)
    BY <1>7 DEF Follow, OwnerActs
  <2>2. QED BY <2>1, WithoutButtonsOK
<1>8. CASE Transfers
  <2>1. UNCHANGED chat \/ \E m, g, rev, next : Starts(m, g, rev, next)
    BY <1>8 DEF Transfers, Transfer, Result
  <2>2. QED BY <2>1, StartsChats
<1>9. CASE Handle
  BY <1>9, HandleChats
<1>10. QED BY <1>2, <1>3, <1>4, <1>5, <1>6, <1>7, <1>8, <1>9 DEF Next, Jobs, Stages, World

---------------------------------------------------------------------------
(* A tick that has output left has the post, and does nothing else but the *)
(* answer it found first.                                                  *)
PostDue == "output" \in tick => bridge.post # None /\ (job = None \/ job.do = "type")

LEMMA OutputFirst ==
  ASSUME NEW s \in {"dashboard", "follow", "albums"}, Stage(s)
  PROVE  "output" \notin tick
<1>1. \E j \in 5..7 : Order[j] = s
  BY DEF Order
<1>2. PICK j \in 5..7 : Order[j] = s
  BY <1>1
<1>3. Len(Order) = 7 /\ Order[4] = "output"
  BY DEF Order
<1>4. 4 \in 1..Len(Order) /\ j \in 1..Len(Order) /\ 4 < j
  BY <1>3
<1>5. QED BY <1>2, <1>3, <1>4 DEF Stage

LEMMA EntryPost ==
  ASSUME LawInv, TickInv, PollAnswer \/ DropTyping
  PROVE  bridge'.post = bridge.post /\ tick' \subseteq tick /\ (job' = None \/ job'.do = "type")
<1>1. job = None
  BY DEF PollAnswer, DropTyping, Stage
<1>2. PICK b : b = bridge
  OBVIOUS
<1>3. IsBridge(b)
  BY <1>2 DEF LawInv, LawBridge
<1>4. bridge'.post = bridge.post
  <2>1. bridge' = b \/ (\E x : bridge' = [b EXCEPT !.answer = x]) \/ (\E x : bridge' = [b EXCEPT !.typing = x])
    BY <1>2 DEF PollAnswer, DropTyping
  <2>2. QED BY <1>2, <1>3, <2>1 DEF IsBridge
<1>5. job' = job \/ \E a : job' = Typing(a)
  BY DEF PollAnswer, DropTyping
<1>6. ASSUME NEW a
      PROVE  Typing(a).do = "type"
  <2>1. PICK j : j = Act("type", a.action, a.question)
    OBVIOUS
  <2>2. IsAct(j) /\ j.do = "type"
    BY <2>1, ActLaw
  <2>3. Typing(a) = [j EXCEPT !.m = a.m, !.g = a.g, !.rev = a.rev]
    BY <2>1 DEF Typing
  <2>4. QED BY <2>2, <2>3 DEF IsAct
<1>7. QED BY <1>1, <1>4, <1>5, <1>6 DEF PollAnswer, DropTyping, Over

LEMMA PostDueStep ==
  ASSUME LawInv, TickInv, PostDue, Next
  PROVE  PostDue'
<1>1. CASE Jobs
  <2>1. job # None /\ UNCHANGED tick
    BY <1>1 DEF Jobs, JobDenied, JobFails, Press, PressUnmarked, SendKeys, Close, Forward, Prompt, StartAnswer,
       FocusEntry, TypeAnswer, Deliver, Service, SendPost, Job
  <2>2. SUFFICES ASSUME job.do = "type"
                 PROVE  UNCHANGED bridge /\ job' = None
    BY <2>1 DEF PostDue
  <2>3. JobDenied \/ JobFails \/ TypeAnswer
    BY <1>1, <2>2 DEF Jobs, Press, PressUnmarked, SendKeys, Close, Forward, Prompt, StartAnswer, FocusEntry, Deliver,
       Service, Job
  <2>4. QED BY <2>3 DEF JobDenied, JobFails, TypeAnswer
<1>2. CASE Stages
  <2>1. CASE PollAnswer \/ DropTyping
    BY <2>1, EntryPost DEF PostDue
  <2>2. CASE Output
    BY <2>2 DEF Output, Over, PostDue
  <2>3. CASE \E g \in Grants : Notice(g)
    <3>1. UNCHANGED <<bridge, job>> /\ tick' \subseteq tick
      BY <2>3 DEF Notice
    <3>2. QED BY <3>1 DEF PostDue
  <2>4. CASE DashboardOver \/ Follow \/ (\E g \in Grants : Dashboard(g)) \/ \E a \in bridge.albums : SendAlbum(a)
    <3>1. (\E s \in {"dashboard", "follow", "albums"} : Stage(s)) /\ tick' \subseteq tick
      BY <2>4 DEF DashboardOver, Follow, Dashboard, SendAlbum, Over
    <3>2. "output" \notin tick
      BY <3>1, OutputFirst
    <3>3. QED BY <3>1, <3>2 DEF PostDue
  <2>5. QED BY <1>2, <2>1, <2>2, <2>3, <2>4 DEF Stages
<1>3. CASE \E due \in SUBSET Timed : Tick(due)
  <2>1. PICK due \in SUBSET Timed : Tick(due)
    BY <1>3
  <2>2. job = None /\ UNCHANGED <<job, bridge>> /\ tick' = Always \cup due
    BY <2>1 DEF Tick, Idle
  <2>3. "output" \in Timed => bridge.post # None
    BY DEF Timed
  <2>4. "output" \notin Always
    BY DEF Always
  <2>5. QED BY <2>2, <2>3, <2>4 DEF PostDue
<1>4. CASE Handle \/ Observe \/ (\E t \in moving : Result(t)) \/ OwnerActs \/ Restart
  <2>1. tick' = {} \/ (tick = {} /\ UNCHANGED tick)
    BY <1>4, Zenon DEF Handle, Observe, Result, OwnerActs, Restart, Idle
  <2>2. QED BY <2>1 DEF PostDue
<1>5. CASE \/ Hear \/ Telegram \/ (\E t \in moving : Transfer(t))
           \/ Asks \/ TurnEnds \/ Focuses \/ DeskAnswers \/ DeskPrompts \/ Exits \/ Repeats \/ Switch
           \/ \E g \in Grants : OwnerDenies(g) \/ OwnerGrants(g)
  <2>1. UNCHANGED <<tick, job, bridge>>
    BY <1>5 DEF Hear, Telegram, Writes, Poll, Confirm, Transfer, Asks, TurnEnds, Focuses, DeskAnswers, DeskPrompts, Exits,
       Repeats, Switch, OwnerDenies, OwnerGrants, Agent
  <2>2. QED BY <2>1 DEF PostDue
<1>6. QED BY <1>1, <1>2, <1>3, <1>4, <1>5 DEF Next, Transfers, World

---------------------------------------------------------------------------
(* What is posted: of a screen that is no older than the post.             *)
LEMMA SentOK ==
  ASSUME NEW to, NEW screen, Send(to, screen), job = None, SeenOK(screen, bridge.post.seq, pane)
  PROVE  SendOK(job', pane)
<1>1. CASE to = {}
  BY <1>1 DEF Send, SendOK
<1>2. CASE to # {}
  <2>1. PICK status, seq, j : seq = bridge.post.seq /\ j = job' /\ status = bridge.post.status
    OBVIOUS
  <2>2. j = [do |-> "send", to |-> to, screen |-> screen, status |-> status, seq |-> seq]
    BY <1>2, <2>1 DEF Send
  <2>3. j.screen = screen /\ j.seq = seq
    BY <2>2
  <2>4. QED BY <2>1, <2>3 DEF SendOK
<1>3. QED BY <1>1, <1>2

LEMMA OutputPost ==
  ASSUME AgentInv, LawInv, PostDue, PostOK(bridge.post, pane), Output
  PROVE  PostOK(bridge'.post, pane) /\ SendOK(job', pane)
<1>1. job = None /\ "output" \in tick
  BY DEF Output, Stage
<1>2. PICK b, x : b = bridge /\ x = bridge.post
  OBVIOUS
<1>3. /\ IsBridge(b) /\ x = b.post /\ x # None
      /\ IsPost(x) /\ x.seq \in 0..pane.seq /\ (x.captured # None => SeenOK(x.captured, x.seq, pane))
      /\ PaneOK(pane)
  BY <1>1, <1>2 DEF LawInv, LawBridge, PostDue, PostOK, AgentInv, AgentOK
<1>4. SeenOK(Screen, x.seq, pane)
  BY <1>3, NewScreen
<1>5. CASE Captured
  <2>1. PICK now : LET screen == IF bridge.post.captured = None THEN Screen ELSE bridge.post.captured IN
                   Remains(Origins \ now, screen) /\ Send(now, screen)
    BY <1>5 DEF Captured
  <2>2. PICK screen, of : screen = (IF x.captured = None THEN Screen ELSE x.captured) /\ of = Origins \ now
    OBVIOUS
  <2>3. Remains(of, screen) /\ Send(now, screen)
    BY <1>2, <2>1, <2>2
  <2>4. SeenOK(screen, x.seq, pane)
    BY <1>3, <1>4, <2>2
  <2>5. SendOK(job', pane)
    BY <1>1, <1>2, <2>3, <2>4, SentOK
  <2>6. PICK y : y = [x EXCEPT !.grants = of, !.captured = screen]
    OBVIOUS
  <2>7. bridge' = [b EXCEPT !.post = IF of = {} THEN None ELSE y]
    BY <1>2, <2>3, <2>6 DEF Remains
  <2>8. bridge'.post = None \/ bridge'.post = y
    BY <1>3, <2>7 DEF IsBridge
  <2>9. IsPost(y) /\ y.seq = x.seq /\ y.captured = screen
    BY <1>3, <2>6 DEF IsPost
  <2>10. PostOK(y, pane)
    BY <1>3, <2>4, <2>9 DEF PostOK
  <2>11. PostOK(None, pane)
    BY DEF PostOK
  <2>12. QED BY <2>5, <2>8, <2>10, <2>11
<1>6. CASE WaitForReply
  <2>1. x.captured = None
    BY <1>2, <1>6 DEF WaitForReply, Replying
  <2>2. PICK now : bridge' = [bridge EXCEPT !.post.grants = Origins \ now, !.post.attempts = @ + 1] /\ Send(now, Screen)
    BY <1>6, Zenon DEF WaitForReply
  <2>3. SendOK(job', pane)
    BY <1>1, <1>2, <1>4, <2>2, SentOK
  <2>4. PICK n, y, of : n = x.attempts + 1 /\ y = bridge'.post /\ of = Origins \ now
    OBVIOUS
  <2>5. bridge' = [b EXCEPT !.post.grants = of, !.post.attempts = n]
    BY <1>2, <2>2, <2>4
  <2>6. y = [x EXCEPT !.grants = of, !.attempts = n]
    BY <1>3, <2>4, <2>5 DEF IsBridge
  <2>7. IsPost(y) /\ y.seq = x.seq /\ y.captured = x.captured
    BY <1>3, <2>6 DEF IsPost
  <2>8. PostOK(y, pane)
    BY <1>3, <2>1, <2>7 DEF PostOK
  <2>9. QED BY <2>3, <2>4, <2>8
<1>7. CASE bridge' = [bridge EXCEPT !.post = None] /\ UNCHANGED job
  <2>1. bridge'.post = None
    BY <1>2, <1>3, <1>7 DEF IsBridge
  <2>2. QED BY <1>1, <1>7, <2>1 DEF PostOK, SendOK
<1>8. QED BY <1>5, <1>6, <1>7 DEF Output

LEMMA ObservedPost ==
  ASSUME NEW p, NEW b, IsBridge(b), PostOK(b.post, p), NEW kind, NEW status, NEW seq \in 0..p.seq
  PROVE  PostOK(Observed(b, kind, status, seq).post, p)
<1>1. PICK c : /\ c = Observed(b, kind, status, seq)
               /\ c.post \in {None, b.post, Post("blocked", seq), Post("done", seq)}
  BY ObservedBridge
<1>2. PostOK(Post("blocked", seq), p) /\ PostOK(Post("done", seq), p)
  BY NewPost
<1>3. PostOK(None, p)
  BY DEF PostOK
<1>4. PostOK(c.post, p)
  BY <1>1, <1>2, <1>3
<1>5. QED BY <1>1, <1>4

LEMMA RefreshedPost ==
  ASSUME AgentInv, NEW b, IsBridge(b), PostOK(b.post, pane)
  PROVE  PostOK(Refreshed(b).post, pane)
BY ObservedPost DEF Refreshed, AgentInv, AgentOK

LEMMA StartsPost ==
  ASSUME LawInv, NEW m, NEW g, NEW rev, NEW next, Starts(m, g, rev, next)
  PROVE  bridge'.post = bridge.post
<1>1. bridge' = bridge \/ bridge' = Invalidated(bridge)
  BY DEF Starts
<1>2. Invalidated(bridge).post = bridge.post
  BY InvalidatedBridge DEF LawInv, LawBridge
<1>3. QED BY <1>1, <1>2

LEMMA HandlePost ==
  ASSUME AgentInv, LawInv, TalkInv, PostOK(bridge.post, pane), Handle
  PROVE  PostOK(bridge'.post, pane)
<1>1. PICK m : m = Head(queue)
  OBVIOUS
<1>2. msg[m].kind \in Kinds
  BY <1>1, HandledMessage DEF Handle, TalkInv
<1>3. \A fate : Told(m, fate) => PostOK(bridge'.post, pane)
  BY DEF Told
<1>4. \A g, rev, next : Starts(m, g, rev, next) => PostOK(bridge'.post, pane)
  BY StartsPost
<1>5. CASE msg[m].kind \in {"choice", "pencil"}
  <2>1. PressOf(m)
    BY <1>1, <1>5 DEF Handle
  <2>2. Told(m, "stale") \/ (\E g, rev, next : Starts(m, g, rev, next)) \/ UNCHANGED bridge
    BY <2>1 DEF PressOf
  <2>3. QED BY <1>3, <1>4, <2>2
<1>6. CASE msg[m].kind = "confirm"
  <2>1. PressClose(m)
    BY <1>1, <1>6 DEF Handle
  <2>2. Told(m, "stale") \/ \E g, rev, next : Starts(m, g, rev, next)
    BY <2>1 DEF PressClose
  <2>3. QED BY <1>3, <1>4, <2>2
<1>7. CASE msg[m].kind \in {"pause", "resume"}
  <2>1. Local(m)
    BY <1>1, <1>7 DEF Handle
  <2>2. (\E fate : Told(m, fate)) \/ UNCHANGED bridge \/ bridge' = Refreshed(bridge)
    BY <2>1 DEF Local
  <2>3. PostOK(Refreshed(bridge).post, pane)
    BY RefreshedPost DEF LawInv, LawBridge
  <2>4. QED BY <1>3, <2>2, <2>3
<1>8. CASE msg[m].kind \in {"plain", "keys", "usage", "screen", "close", "file", "git", "part"}
  <2>1. Command(m)
    BY <1>1, <1>8 DEF Handle
  <2>2. \/ \E fate : Told(m, fate)
        \/ \E g, r, next : Starts(m, g, r, next)
        \/ UNCHANGED bridge
        \/ \E x : bridge' = [bridge EXCEPT !.albums = x]
    <3>1. CASE msg[m].kind = "plain"
      BY <2>1, <3>1 DEF Command, Plain
    <3>2. CASE msg[m].kind = "keys"
      BY <2>1, <3>2 DEF Command
    <3>3. CASE msg[m].kind = "usage"
      BY <2>1, <3>3 DEF Command
    <3>4. CASE msg[m].kind = "screen"
      BY <2>1, <3>4 DEF Command
    <3>5. CASE msg[m].kind = "close"
      BY <2>1, <3>5 DEF Command
    <3>6. CASE msg[m].kind \in {"file", "git"}
      BY <2>1, <3>6 DEF Command
    <3>7. CASE msg[m].kind = "part"
      BY <2>1, <3>7 DEF Command, Part
    <3>8. QED BY <1>8, <3>1, <3>2, <3>3, <3>4, <3>5, <3>6, <3>7
  <2>3. (\E x : bridge' = [bridge EXCEPT !.albums = x]) => bridge'.post = bridge.post
    BY DEF LawInv, LawBridge, IsBridge
  <2>4. QED BY <1>3, <1>4, <2>2, <2>3
<1>9. QED BY <1>2, <1>5, <1>6, <1>7, <1>8 DEF Kinds, Presses, Reads

LEMMA PressPost ==
  ASSUME AgentInv, LawInv, PostOK(bridge.post, pane), Press
  PROVE  PostOK(bridge'.post, pane)
<1>1. PICK b, wait : b = bridge /\ wait = [g |-> job.g, rev |-> job.rev, question |-> job.meant]
  OBVIOUS
<1>2. IsBridge(b)
  BY <1>1 DEF LawInv, LawBridge
<1>3. PICK c : bridge' = Refreshed(c) /\ (c = b \/ c = [b EXCEPT !.typing = wait])
  BY <1>1 DEF Press
<1>4. IsBridge(c) /\ c.post = b.post
  BY <1>2, <1>3 DEF IsBridge
<1>5. QED BY <1>1, <1>3, <1>4, RefreshedPost

LEMMA PostStep ==
  ASSUME AgentInv, LawInv, TalkInv, TickInv, PostDue, PostOK(bridge.post, pane), Next
  PROVE  PostOK(bridge'.post, pane')
<1>1. PaneOK(pane)
  BY DEF AgentInv, AgentOK
<1> SUFFICES PostOK(bridge'.post, pane)
  <2>1. PICK x, p2 : x = bridge'.post /\ p2 = pane'
    OBVIOUS
  <2>2. PaneMove(pane, p2)
    BY <2>1, AgentStep
  <2>3. QED BY <1>1, <2>1, <2>2, PostMoves
<1>2. PICK b : b = bridge /\ IsBridge(b)
  BY DEF LawInv, LawBridge
<1>3. CASE \/ JobDenied \/ JobFails \/ PressUnmarked \/ SendKeys \/ Close \/ Prompt \/ StartAnswer \/ TypeAnswer \/ Deliver
           \/ Service \/ (job # None /\ job.do = "send" /\ \E p \in job.to : SendPost(p))
           \/ DashboardOver \/ (\E g \in Grants : Notice(g) \/ Dashboard(g)) \/ (\E due \in SUBSET Timed : Tick(due))
           \/ Hear \/ (\E t \in moving : Transfer(t)) \/ Telegram \/ Repeats \/ Switch \/ (\E g \in Grants : OwnerDenies(g) \/ OwnerGrants(g))
  <2>1. CASE \/ JobDenied \/ JobFails \/ PressUnmarked \/ SendKeys \/ Close \/ Prompt \/ StartAnswer \/ TypeAnswer \/ Deliver
             \/ Service \/ (job # None /\ job.do = "send" /\ \E p \in job.to : SendPost(p))
    <3>1. UNCHANGED bridge
      BY <2>1 DEF JobDenied, JobFails, PressUnmarked, SendKeys, Close, Prompt, StartAnswer, TypeAnswer, Deliver, Service, SendPost
    <3>2. QED BY <3>1
  <2>2. CASE \/ DashboardOver \/ (\E g \in Grants : Notice(g) \/ Dashboard(g)) \/ (\E due \in SUBSET Timed : Tick(due))
             \/ Hear \/ (\E t \in moving : Transfer(t)) \/ Telegram \/ Repeats \/ Switch \/ (\E g \in Grants : OwnerDenies(g) \/ OwnerGrants(g))
    <3>1. UNCHANGED bridge
      BY <2>2 DEF DashboardOver, Notice, Dashboard, Tick, Hear, Transfer, Telegram, Writes, Poll, Confirm, Repeats, Switch, OwnerDenies, OwnerGrants
    <3>2. QED BY <3>1
  <2>3. QED BY <1>3, <2>1, <2>2
<1>4. CASE Asks \/ TurnEnds \/ Focuses \/ DeskAnswers \/ DeskPrompts \/ Exits
  <2>1. \E next : Agent(next)
    BY <1>4 DEF Asks, TurnEnds, Focuses, DeskAnswers, DeskPrompts, Exits
  <2>2. UNCHANGED bridge
    BY <2>1 DEF Agent
  <2>3. QED BY <2>2
<1>5. CASE Forward \/ FocusEntry \/ \E a \in bridge.albums : SendAlbum(a)
  <2>1. \/ bridge' = b
        \/ \E x : bridge' = [b EXCEPT !.follow = x]
        \/ \E x : bridge' = [b EXCEPT !.answer = x]
        \/ \E x : bridge' = [b EXCEPT !.albums = x]
    BY <1>2, <1>5 DEF Forward, FocusEntry, SendAlbum
  <2>2. bridge'.post = b.post
    BY <1>2, <2>1 DEF IsBridge
  <2>3. QED BY <1>2, <2>2
<1>6. CASE PollAnswer \/ DropTyping
  BY <1>6, EntryPost
<1>7. CASE Follow \/ OwnerActs
  <2>1. PICK c : c = Invalidated(b) /\ IsBridge(c) /\ c.post = b.post
    BY <1>2, InvalidatedBridge
  <2>2. bridge' = b \/ bridge' = c \/ \E x : bridge' = [b EXCEPT !.follow = x] \/ bridge' = [c EXCEPT !.follow = x]
    BY <1>2, <1>7, <2>1 DEF Follow, OwnerActs
  <2>3. bridge'.post = b.post
    BY <1>2, <2>1, <2>2 DEF IsBridge
  <2>4. QED BY <1>2, <2>3
<1>8. CASE \E t \in moving : Result(t)
  <2>1. UNCHANGED bridge \/ \E m, g, rev, next : Starts(m, g, rev, next)
    BY <1>8 DEF Result
  <2>2. QED BY <2>1, StartsPost
<1>9. CASE Observe
  <2>1. PICK u : u = Head(news) /\ bridge' = Observed(bridge, u.kind, u.status, u.seq)
    BY <1>9 DEF Observe
  <2>2. u.seq \in 0..pane.seq
    <3>1. PICK n : n = news
      OBVIOUS
    <3>2. IsSeq(n) /\ n # <<>> /\ \A i \in 1..Len(n) : n[i].seq \in 0..pane.seq
      BY <1>9, <3>1 DEF AgentInv, AgentOK, Observe
    <3>3. Head(n) = n[1] /\ 1 \in 1..Len(n)
      BY <3>2, ShorterSeq
    <3>4. QED BY <2>1, <3>1, <3>2, <3>3
  <2>3. QED BY <1>2, <2>1, <2>2, ObservedPost
<1>10. CASE Restart
  <2>1. bridge' = Fresh(pane.status = "working")
    BY <1>10 DEF Restart
  <2>2. bridge'.post = None
    BY <2>1 DEF Fresh
  <2>3. QED BY <2>2 DEF PostOK
<1>11. QED BY <1>3, <1>4, <1>5, <1>6, <1>7, <1>8, <1>9, <1>10, PressPost, OutputPost, HandlePost
           DEF Next, Jobs, Stages, Transfers, World

---------------------------------------------------------------------------
(* What a job is made for stands: a post shows what its screen showed, and *)
(* where the pane waits for the bridge an answer is for what it asks.      *)
Shows(races, j, p) == SendOK(j, p) /\ (~races /\ Acting(j) => Meant(j, p))
ShowsKept ==
  \/ job' = None
  \/ UNCHANGED pane /\ Shows(Has("races"), job', pane)
  \/ UNCHANGED job /\ (Has("races") \/ UNCHANGED pane)
ShowsStep == UNCHANGED opt /\ ShowsKept

LEMMA ShowsNext ==
  ASSUME PaneOK(pane), PaneMove(pane, pane'), Shows(Has("races"), job, pane), ShowsStep
  PROVE  Shows(Has("races"), job, pane)'
<1>1. PICK r, j, j2, p, p2 : r = Has("races") /\ j = job /\ j2 = job' /\ p = pane /\ p2 = pane'
  OBVIOUS
<1>2. Has("races")' = r
  BY <1>1 DEF ShowsStep, Has
<1>3. j2 = None \/ (p2 = p /\ Shows(r, j2, p)) \/ (j2 = j /\ (r \/ p2 = p))
  BY <1>1 DEF ShowsStep, ShowsKept
<1>4. PaneOK(p) /\ PaneMove(p, p2) /\ Shows(r, j, p)
  BY <1>1
<1>5. SendOK(j, p2)
  BY <1>4, SendMoves DEF Shows
<1>6. Shows(r, None, p2)
  BY DEF Shows, SendOK, Acting
<1>7. Shows(r, j2, p2)
  BY <1>3, <1>4, <1>5, <1>6 DEF Shows
<1>8. Shows(Has("races"), job, pane)' <=> Shows(r, j2, p2)
  BY <1>1, <1>2 DEF Shows, SendOK, SeenOK, Matches, Acting, Meant
<1>9. QED BY <1>7, <1>8

(* A job that is not for an answer, or for one that stands.                *)
Fits(next) == ~Has("races") => Meant(next, pane)

LEMMA StartsShows ==
  ASSUME job = None, UNCHANGED pane, NEW m, NEW g, NEW rev, NEW next, Starts(m, g, rev, next), Writer(next), Fits(next)
  PROVE  ShowsKept
<1>1. CASE Begin(g, rev, next.action)
  <2>1. PICK k : k = job'
    OBVIOUS
  <2>2. k = [next EXCEPT !.m = m, !.g = g, !.rev = rev]
    BY <1>1, <2>1 DEF Starts
  <2>3. k.do = next.do /\ k.meant = next.meant /\ k.late = next.late
    BY <2>2 DEF Writer, IsAct
  <2>4. Shows(Has("races"), k, pane)
    BY <2>3 DEF Shows, SendOK, Writer, Fits, Meant
  <2>5. QED BY <2>1, <2>4 DEF ShowsKept
<1>2. CASE ~Begin(g, rev, next.action)
  BY <1>2 DEF Starts, ShowsKept
<1>3. QED BY <1>1, <1>2

LEMMA ActFits ==
  ASSUME NEW do, NEW action, NEW meant, do \notin {"focus", "type", "choice", "pencil"}
  PROVE  Fits(Act(do, action, meant))
<1>1. PICK j : j = Act(do, action, meant)
  OBVIOUS
<1>2. j.do = do
  BY <1>1, ActLaw
<1>3. QED BY <1>1, <1>2 DEF Fits, Meant

(* Buttons that stand show the question of the pane, unless news of it is  *)
(* still to come.                                                          *)
LEMMA PressFits ==
  ASSUME AgentInv, NEW b, Matches(b.seq, b.question, pane), Stands(b), NEW do, NEW action, do \in {"choice", "pencil"}
  PROVE  Fits(Act(do, action, b.question))
<1>1. PICK j : j = Act(do, action, b.question)
  OBVIOUS
<1>2. j.do = do /\ j.meant = b.question /\ j.late = (heard # <<>>)
  BY <1>1, ActLaw
<1>3. heard = <<>> => known.seq = pane.seq
  BY DEF AgentInv, AgentOK, Latest
<1>4. known.seq = b.seq
  BY DEF Stands
<1>5. heard # <<>> \/ b.question = pane.question
  BY <1>3, <1>4 DEF Matches
<1>6. QED BY <1>1, <1>2, <1>5 DEF Fits, Meant

(* What starts beside the presses is for no question.                      *)
Plans(m, g, rev, do, action, meant) ==
  /\ do \notin {"send", "service", "focus", "type", "choice", "pencil"} /\ action \in Writing
  /\ Starts(m, g, rev, Act(do, action, meant))

LEMMA PlansShows ==
  ASSUME job = None, UNCHANGED pane, NEW m, NEW g, NEW rev, NEW do, NEW action, NEW meant, Plans(m, g, rev, do, action, meant)
  PROVE  ShowsKept
<1>1. Writer(Act(do, action, meant)) /\ Fits(Act(do, action, meant))
  BY ActWrites, ActFits DEF Plans
<1>2. QED BY <1>1, StartsShows DEF Plans

LEMMA CommandPlans ==
  ASSUME NEW m, Command(m), msg[m].kind \in {"plain", "keys", "usage", "screen", "close", "file", "git", "part"}
  PROVE  UNCHANGED job \/ \E g, rev, do, action, meant : Plans(m, g, rev, do, action, meant)
<1>1. PICK g, rev : g = msg[m].g /\ rev = grant[g].rev
  OBVIOUS
<1>2. CASE msg[m].kind = "plain"
  <2>1. UNCHANGED job \/ Plain(m, g, rev)
    BY <1>1, <1>2 DEF Command, Told
  <2>2. ASSUME Plain(m, g, rev)
        PROVE  \E do, action, meant : Plans(m, g, rev, do, action, meant)
    <3>1. CASE bridge.typing = None
      <4>1. Starts(m, g, rev, Act("prompt", "prompt", Shown(g)))
        BY <2>2, <3>1 DEF Plain
      <4>2. QED BY <4>1 DEF Plans, Writing
    <3>2. CASE bridge.typing # None
      <4>1. Starts(m, g, rev, Act("deliver", "prompt", bridge.typing.question))
        BY <2>2, <3>2 DEF Plain
      <4>2. QED BY <4>1 DEF Plans, Writing
    <3>3. QED BY <3>1, <3>2
  <2>3. QED BY <2>1, <2>2
<1>3. CASE msg[m].kind = "keys"
  <2>1. UNCHANGED job \/ Starts(m, g, rev, Act("enter", "keys", 0))
    BY <1>1, <1>3 DEF Command, Told
  <2>2. QED BY <2>1 DEF Plans, Writing
<1>4. CASE msg[m].kind = "usage"
  <2>1. UNCHANGED job \/ Starts(m, g, rev, Act("usage", "forward", 0))
    BY <1>1, <1>4 DEF Command, Told
  <2>2. QED BY <2>1 DEF Plans, Writing
<1>5. CASE msg[m].kind \in {"screen", "close"}
  BY <1>5 DEF Command, Told
<1>6. CASE msg[m].kind \in {"file", "git", "part"}
  BY <1>6 DEF Command, Told
<1>7. QED BY <1>2, <1>3, <1>4, <1>5, <1>6

LEMMA HandleShows ==
  ASSUME AgentInv, TalkInv, ChatsOK(chat, pane), Handle
  PROVE  ShowsKept
<1>1. PICK m : m = Head(queue)
  OBVIOUS
<1>2. msg[m].kind \in Kinds /\ msg[m].g \in Grants /\ job = None /\ UNCHANGED pane
  BY <1>1, HandledMessage DEF Handle, TalkInv, Idle
<1>3. UNCHANGED job => ShowsKept
  BY <1>2 DEF ShowsKept
<1>4. CASE msg[m].kind \in {"choice", "pencil"}
  <2>1. PressOf(m)
    BY <1>1, <1>4 DEF Handle
  <2>2. PICK h, b : h = msg[m].g /\ b = chat[h].button
    OBVIOUS
  <2>3. UNCHANGED job \/ (b # None /\ Stands(b) /\ Starts(m, h, b.rev, Act(msg[m].kind, "dialog", b.question)))
    BY <2>1, <2>2 DEF PressOf, Told
  <2>4. ASSUME b # None, Stands(b), Starts(m, h, b.rev, Act(msg[m].kind, "dialog", b.question))
        PROVE  ShowsKept
    <3>1. Writer(Act(msg[m].kind, "dialog", b.question))
      BY <1>4, ActWrites DEF Writing
    <3>2. Matches(b.seq, b.question, pane)
      <4>1. h \in Grants
        BY <1>2, <2>2
      <4>2. QED BY <2>2, <2>4, <4>1, ChatParts DEF ChatOK
    <3>3. Fits(Act(msg[m].kind, "dialog", b.question))
      BY <1>4, <2>4, <3>2, PressFits
    <3>4. QED BY <1>2, <2>4, <3>1, <3>3, StartsShows
  <2>5. QED BY <1>3, <2>3, <2>4
<1>5. CASE msg[m].kind \notin {"choice", "pencil"}
  <2>1. UNCHANGED job \/ \E g, rev, do, action, meant : Plans(m, g, rev, do, action, meant)
    <3>1. CASE msg[m].kind = "confirm"
      <4>1. PressClose(m)
        BY <1>1, <3>1 DEF Handle
      <4>2. UNCHANGED job \/ \E rev : Starts(m, msg[m].g, rev, Act("confirm", "close", 0))
        BY <4>1 DEF PressClose, Told
      <4>3. QED BY <4>2 DEF Plans, Writing
    <3>2. CASE msg[m].kind \in {"pause", "resume"}
      <4>1. Local(m)
        BY <1>1, <3>2 DEF Handle
      <4>2. QED BY <4>1 DEF Local, Told
    <3>3. CASE msg[m].kind \in {"plain", "keys", "usage", "screen", "close", "file", "git", "part"}
      <4>1. Command(m)
        BY <1>1, <3>3 DEF Handle
      <4>2. QED BY <4>1, <3>3, CommandPlans
    <3>4. QED BY <1>2, <1>5, <3>1, <3>2, <3>3 DEF Kinds, Presses, Reads
  <2>2. QED BY <1>2, <1>3, <2>1, PlansShows
<1>6. QED BY <1>4, <1>5

LEMMA JobsShow ==
  ASSUME LawInv, Shows(Has("races"), job, pane), Jobs
  PROVE  ShowsStep
<1>1. PICK j, k : j = job /\ k = job'
  OBVIOUS
<1>2. LawJob(j) /\ Shows(Has("races"), j, pane)
  BY <1>1 DEF LawInv
<1>3. CASE JobDenied \/ JobFails \/ Press \/ PressUnmarked \/ SendKeys \/ Close \/ Forward \/ FocusEntry \/ TypeAnswer \/ Deliver \/ Service
  <2>1. job' = None /\ UNCHANGED opt
    BY <1>3 DEF JobDenied, JobFails, Press, PressUnmarked, SendKeys, Close, Forward, FocusEntry, TypeAnswer, Deliver, Service, Job
  <2>2. QED BY <2>1 DEF ShowsStep, ShowsKept
<1>4. CASE Prompt
  <2>1. UNCHANGED opt /\ Acting(j) /\ (k = None \/ (UNCHANGED pane /\ k = [j EXCEPT !.do = "look"]))
    BY <1>1, <1>4 DEF Prompt, Job, Same, Acting
  <2>2. ASSUME k = [j EXCEPT !.do = "look"]
        PROVE  Shows(Has("races"), k, pane)
    <3>1. k.do = "look"
      BY <1>2, <2>1, <2>2 DEF LawJob, IsAct
    <3>2. QED BY <3>1 DEF Shows, SendOK, Meant
  <2>3. QED BY <1>1, <2>1, <2>2 DEF ShowsStep, ShowsKept
<1>5. CASE StartAnswer
  <2>1. UNCHANGED <<opt, pane>> /\ Acting(j)
    BY <1>1, <1>5 DEF StartAnswer, Job, Same, Acting
  <2>2. \/ k = None
        \/ (Open(j.meant) \/ Waits(j.meant)) /\ k = [j EXCEPT !.do = IF Open(j.meant) THEN "type" ELSE "focus"]
    BY <1>1, <1>5 DEF StartAnswer
  <2>3. ASSUME Open(j.meant) \/ Waits(j.meant), k = [j EXCEPT !.do = IF Open(j.meant) THEN "type" ELSE "focus"]
        PROVE  Shows(Has("races"), k, pane)
    <3>1. PICK do \in {"type", "focus"} : k = [j EXCEPT !.do = do]
      BY <2>3
    <3>2. k.do = do /\ k.meant = j.meant
      BY <1>2, <2>1, <3>1 DEF LawJob, IsAct
    <3>3. j.meant = pane.question
      BY <2>3 DEF Open, Waits
    <3>4. QED BY <3>2, <3>3 DEF Shows, SendOK, Meant
  <2>4. QED BY <1>1, <2>1, <2>2, <2>3 DEF ShowsStep, ShowsKept
<1>6. CASE job # None /\ job.do = "send" /\ \E p \in job.to : SendPost(p)
  <2>1. PICK p : SendPost(p)
    BY <1>6
  <2>2. PICK rest : rest = j.to \ {p}
    OBVIOUS
  <2>3. UNCHANGED <<opt, pane>> /\ j # None /\ j.do = "send" /\ (k = None \/ k = [j EXCEPT !.to = rest])
    BY <1>1, <1>6, <2>1, <2>2 DEF SendPost
  <2>4. ASSUME k = [j EXCEPT !.to = rest]
        PROVE  Shows(Has("races"), k, pane)
    <3>1. k.do = "send" /\ k.screen = j.screen /\ k.seq = j.seq
      BY <1>2, <2>3, <2>4 DEF LawJob, IsSend
    <3>2. QED BY <1>2, <2>3, <3>1 DEF Shows, SendOK, Acting
  <2>5. QED BY <1>1, <2>3, <2>4 DEF ShowsStep, ShowsKept
<1>7. QED BY <1>3, <1>4, <1>5, <1>6 DEF Jobs

LEMMA StagesShow ==
  ASSUME AgentInv, LawInv, PostDue, PostOK(bridge.post, pane), Stages
  PROVE  ShowsStep
<1>1. job = None /\ UNCHANGED <<opt, pane>>
  BY DEF Stages, PollAnswer, DropTyping, Output, DashboardOver, Follow, Notice, Dashboard, SendAlbum, Stage
<1>2. (job' = None \/ Shows(Has("races"), job', pane)) => ShowsStep
  BY <1>1 DEF ShowsStep, ShowsKept
<1>3. PICK k : k = job'
  OBVIOUS
<1>4. CASE PollAnswer
  <2>1. PICK a : a = bridge.answer
    OBVIOUS
  <2>2. k = None \/ (Open(a.question) /\ k = Typing(a))
    BY <1>1, <1>3, <1>4, <2>1 DEF PollAnswer
  <2>3. ASSUME Open(a.question), k = Typing(a)
        PROVE  Shows(Has("races"), k, pane)
    <3>1. PICK j : j = Act("type", a.action, a.question)
      OBVIOUS
    <3>2. IsAct(j) /\ j.do = "type" /\ j.meant = a.question
      BY <3>1, ActLaw
    <3>3. k = [j EXCEPT !.m = a.m, !.g = a.g, !.rev = a.rev]
      BY <2>3, <3>1 DEF Typing
    <3>4. k.do = "type" /\ k.meant = a.question
      BY <3>2, <3>3 DEF IsAct
    <3>5. QED BY <2>3, <3>4 DEF Shows, SendOK, Meant, Open
  <2>4. QED BY <1>2, <1>3, <2>2, <2>3
<1>5. CASE DropTyping \/ DashboardOver \/ (\E g \in Grants : Notice(g)) \/ \E a \in bridge.albums : SendAlbum(a)
  <2>1. UNCHANGED job
    BY <1>5 DEF DropTyping, DashboardOver, Notice, SendAlbum
  <2>2. QED BY <1>1, <1>2, <2>1
<1>6. CASE Output
  <2>1. SendOK(k, pane)
    BY <1>3, <1>6, OutputPost
  <2>2. k = None \/ \E to, screen : Send(to, screen)
    BY <1>1, <1>3, <1>6 DEF Output, Captured, WaitForReply
  <2>3. k = None \/ \E to, screen, status, seq : k = [do |-> "send", to |-> to, screen |-> screen, status |-> status, seq |-> seq]
    BY <1>1, <1>3, <2>2 DEF Send
  <2>4. k = None \/ k.do = "send"
    BY <2>3
  <2>5. QED BY <1>2, <1>3, <2>1, <2>4 DEF Shows, Acting
<1>7. CASE \E g \in Grants : Dashboard(g)
  <2>1. k = None \/ \E g, content : k = [do |-> "service", g |-> g, content |-> content]
    BY <1>1, <1>3, <1>7 DEF Dashboard
  <2>2. k = None \/ k.do = "service"
    BY <2>1
  <2>3. QED BY <1>2, <1>3, <2>2 DEF Shows, SendOK, Acting
<1>8. CASE Follow
  <2>1. PICK f, j : f = Head(bridge.follow) /\ j = Act("esc", "keys", 0)
    OBVIOUS
  <2>2. k = None \/ k = [j EXCEPT !.g = f.g, !.rev = f.rev]
    BY <1>1, <1>3, <1>8, <2>1 DEF Follow
  <2>3. IsAct(j) /\ j.do = "esc"
    BY <2>1, ActLaw
  <2>4. k = None \/ k.do = "esc"
    BY <2>2, <2>3 DEF IsAct
  <2>5. QED BY <1>2, <1>3, <2>4 DEF Shows, SendOK, Meant
<1>9. QED BY <1>4, <1>5, <1>6, <1>7, <1>8 DEF Stages

LEMMA NextShows ==
  ASSUME AgentInv, LawInv, TalkInv, PostDue, ChatsOK(chat, pane), PostOK(bridge.post, pane), Shows(Has("races"), job, pane), Next
  PROVE  ShowsStep
<1>1. CASE (\E due \in SUBSET Timed : Tick(due)) \/ Observe \/ Hear \/ (\E t \in moving : Transfer(t)) \/ Telegram \/ Repeats \/ Switch
           \/ \E g \in Grants : OwnerDenies(g) \/ OwnerGrants(g)
  <2>1. UNCHANGED <<opt, pane, job>>
    BY <1>1 DEF Tick, Observe, Hear, Transfer, Telegram, Writes, Poll, Confirm, Repeats, Switch, OwnerDenies, OwnerGrants
  <2>2. QED BY <2>1 DEF ShowsStep, ShowsKept
<1>2. CASE Handle
  <2>1. UNCHANGED opt
    BY <1>2 DEF Handle
  <2>2. QED BY <1>2, <2>1, HandleShows DEF ShowsStep
<1>3. CASE \E t \in moving : Result(t)
  <2>1. PICK t : Result(t)
    BY <1>3
  <2>2. job = None /\ UNCHANGED <<opt, pane>>
    BY <2>1 DEF Result, Idle
  <2>3. UNCHANGED job \/ Starts(t.m, t.g, t.rev, Act("prompt", "attachment", Shown(t.g)))
    BY <2>1 DEF Result
  <2>4. UNCHANGED job \/ Plans(t.m, t.g, t.rev, "prompt", "attachment", Shown(t.g))
    BY <2>3 DEF Plans, Writing
  <2>5. QED BY <2>2, <2>4, PlansShows DEF ShowsStep, ShowsKept
<1>4. CASE Asks \/ TurnEnds \/ Focuses \/ DeskAnswers \/ DeskPrompts \/ Exits
  <2>1. \E next : Agent(next)
    BY <1>4 DEF Asks, TurnEnds, Focuses, DeskAnswers, DeskPrompts, Exits
  <2>2. UNCHANGED <<opt, job>> /\ (Has("races") \/ job = None)
    BY <2>1 DEF Agent, Idle
  <2>3. QED BY <2>2 DEF ShowsStep, ShowsKept
<1>5. CASE OwnerActs \/ Restart
  <2>1. UNCHANGED opt /\ job' = None
    BY <1>5 DEF OwnerActs, Restart, Idle
  <2>2. QED BY <2>1 DEF ShowsStep, ShowsKept
<1>6. QED BY <1>1, <1>2, <1>3, <1>4, <1>5, JobsShow, StagesShow DEF Next, Transfers, World

LEMMA AnswersStep ==
  ASSUME LawInv, Shows(Has("races"), job, pane), Next
  PROVE  AnswersWhatItShowed'
<1> DEFINE Answer == effect' # None /\ ~Has("races") /\ effect'.by \in {"press", "answer"}
<1>1. UNCHANGED opt
  BY DEF Next, Jobs, JobDenied, JobFails, Press, PressUnmarked, SendKeys, Close, Forward, Prompt, StartAnswer, FocusEntry,
     TypeAnswer, Deliver, Service, SendPost, Job, Stages, PollAnswer, DropTyping, Output, DashboardOver, Follow, Notice,
     Dashboard, SendAlbum, Stage, Tick, Handle, Observe, Hear, Transfers, Transfer, Result, Telegram, Writes, Poll, Confirm,
     World, Asks, TurnEnds, Focuses, DeskAnswers, DeskPrompts, Exits, OwnerActs, Repeats, Switch, Restart, OwnerDenies, OwnerGrants, Agent
<1>2. (Answer => effect'.question = effect'.meant \/ (effect'.by = "press" /\ effect'.late)) => AnswersWhatItShowed'
  BY <1>1 DEF AnswersWhatItShowed, Has
<1>3. CASE Press \/ PressUnmarked
  <2>1. job # None /\ job.do \in {"choice", "pencil"}
    BY <1>3 DEF Press, PressUnmarked, Job
  <2>2. \E g, rev, key : KeyLands("press", g, rev, key, job.meant)
    BY <1>3 DEF Press, PressUnmarked
  <2>3. \E g, rev : ActOf("press", g, rev, job.meant)
    BY <2>2, KeyNoted
  <2>4. Has("races") \/ job.late \/ job.meant = pane.question
    BY <2>1 DEF Shows, Acting, Meant
  <2>5. QED BY <1>2, <2>1, <2>3, <2>4 DEF ActOf
<1>4. CASE FocusEntry
  <2>1. job # None /\ job.do = "focus"
    BY <1>4 DEF FocusEntry, Job
  <2>2. \E g, rev : ActOf("answer", g, rev, job.meant)
    BY <1>4, KeyNoted DEF FocusEntry
  <2>3. Has("races") \/ job.meant = pane.question
    BY <2>1 DEF Shows, Acting, Meant
  <2>4. QED BY <1>2, <2>2, <2>3 DEF ActOf
<1>5. CASE TypeAnswer
  <2>1. job # None /\ job.do = "type"
    BY <1>5 DEF TypeAnswer, Job
  <2>2. \E g, rev : ActOf("answer", g, rev, job.meant)
    BY <1>5, TextNoted DEF TypeAnswer
  <2>3. Has("races") \/ job.meant = pane.question
    BY <2>1 DEF Shows, Acting, Meant
  <2>4. QED BY <1>2, <2>2, <2>3 DEF ActOf
<1>6. CASE SendKeys \/ Close \/ Forward \/ Prompt \/ Deliver
  <2>1. \/ Still
        \/ \E by, g, rev, meant : by \in {"keys", "close", "forward", "prompt", "pencil"} /\ ActOf(by, g, rev, meant)
    BY <1>6, KeyNoted, TextNoted, EffectNoted DEF SendKeys, Close, Forward, Prompt, Deliver
  <2>2. ~Answer
    BY <2>1 DEF ActOf, Still
  <2>3. QED BY <1>2, <2>2
<1>7. CASE Still
  BY <1>2, <1>7 DEF Still
<1>8. Still \/ Press \/ PressUnmarked \/ FocusEntry \/ TypeAnswer \/ SendKeys \/ Close \/ Forward \/ Prompt \/ Deliver
  BY DEF Next, Jobs, JobDenied, JobFails, StartAnswer, Service, SendPost, Stages, PollAnswer, DropTyping, Output,
     DashboardOver, Follow, Notice, Dashboard, SendAlbum, Stage, Tick, Handle, Observe, Hear, Transfers, Transfer, Result,
     Telegram, Writes, Poll, Confirm, World, Asks, TurnEnds, Focuses, DeskAnswers, DeskPrompts, Exits, OwnerActs, Repeats, Switch,
     Restart, OwnerDenies, OwnerGrants, Agent
<1>9. QED BY <1>3, <1>4, <1>5, <1>6, <1>7, <1>8

(* With IInv, what the chats, the post and the job say of the question.    *)
ShownInv ==
  /\ AgentInv /\ PostDue
  /\ ChatsOK(chat, pane) /\ PostOK(bridge.post, pane) /\ Shows(Has("races"), job, pane)
  /\ AnswersWhatItShowed

LEMMA InitShown ==
  ASSUME Init
  PROVE  ShownInv
<1>1. PICK status \in {"idle", "working"} :
        /\ pane = [status |-> status, view |-> "input", question |-> 0, seq |-> 0]
        /\ known = [status |-> status, seq |-> 0] /\ bridge = Fresh(status = "working")
  BY DEF Init
<1>2. heard = <<>> /\ news = <<>> /\ chat = [g \in Grants |-> Empty] /\ job = None /\ tick = {} /\ effect = None
  BY DEF Init
<1>3. PaneOK(pane)
  BY <1>1 DEF PaneOK, IsPane
<1>4. AgentInv
  <2>1. IsSeq(<<>>) /\ Len(<<>>) = 0
    BY DEF IsSeq
  <2>2. known.seq \in 0..pane.seq /\ Latest(<<>>, known) = [status |-> pane.status, seq |-> pane.seq]
    BY <1>1 DEF Latest
  <2>3. AgentOK(pane, <<>>, known, <<>>)
    BY <1>3, <2>1, <2>2 DEF AgentOK
  <2>4. QED BY <1>2, <2>3 DEF AgentInv
<1>5. ChatsOK(chat, pane)
  <2>1. PICK e : e = Empty
    OBVIOUS
  <2>2. IsChat(e) /\ e.button = None
    BY <2>1 DEF Empty, IsChat
  <2>3. QED BY <1>2, <2>1, <2>2 DEF ChatsOK, ChatOK
<1>6. PostOK(bridge.post, pane)
  <2>1. bridge.post = None
    BY <1>1 DEF Fresh
  <2>2. QED BY <2>1 DEF PostOK
<1>7. PostDue /\ Shows(Has("races"), job, pane) /\ AnswersWhatItShowed
  BY <1>2 DEF PostDue, Shows, SendOK, Acting, AnswersWhatItShowed
<1>8. QED BY <1>4, <1>5, <1>6, <1>7 DEF ShownInv

LEMMA ShownPrimed ==
  ASSUME AgentInv', PostDue', ChatsOK(chat', pane'), PostOK(bridge'.post, pane'), Shows(Has("races"), job, pane)',
         AnswersWhatItShowed'
  PROVE  ShownInv'
<1>1. ChatsOK(chat, pane)'
  BY DEF ChatsOK, ChatOK, IsChat, Matches
<1>2. PostOK(bridge.post, pane)'
  BY DEF PostOK, IsPost, SeenOK, Matches
<1>3. QED BY <1>1, <1>2 DEF ShownInv

LEMMA ShownStep ==
  ASSUME IInv, ShownInv, Next
  PROVE  ShownInv'
<1>1. /\ LawInv /\ TalkInv /\ TickInv /\ AgentInv /\ PostDue /\ PaneOK(pane)
      /\ ChatsOK(chat, pane) /\ PostOK(bridge.post, pane) /\ Shows(Has("races"), job, pane)
  BY DEF IInv, ShownInv, AgentInv, AgentOK
<1>2. AgentInv' /\ PaneMove(pane, pane')
  BY <1>1, AgentStep
<1>3. PostDue' /\ ChatsOK(chat', pane') /\ PostOK(bridge'.post, pane')
  BY <1>1, PostDueStep, ChatsStep, PostStep DEF Shows
<1>4. Shows(Has("races"), job, pane)'
  BY <1>1, <1>2, NextShows, ShowsNext
<1>5. AnswersWhatItShowed'
  BY <1>1, AnswersStep
<1>6. QED BY <1>2, <1>3, <1>4, <1>5, ShownPrimed

LEMMA ShownStutter ==
  ASSUME ShownInv, UNCHANGED vars
  PROVE  ShownInv'
BY DEF vars, ShownInv, AgentInv, AgentOK, PaneOK, IsPane, Latest, IsSeq, PostDue, ChatsOK, ChatOK, IsChat, Matches, PostOK, IsPost,
   SeenOK, Shows, SendOK, Acting, Meant, Has, AnswersWhatItShowed

(* A press of a button, and a text that goes into the entry of a dialog,   *)
(* answer the question they were meant for: where the pane waits for the   *)
(* bridge, no tick, retry, restart or other recipient turns them to        *)
(* another, but for a press before the news of a question has come         *)
(* (PrivateControl.press, shownTextEntry, startPrivateAnswer and           *)
(* pollPrivateAnswers).                                                    *)
THEOREM AnswersAreForWhatWasShown == Spec => []AnswersWhatItShowed
<1>1. Init => ShownInv
  BY InitShown
<1>2. IInv /\ ShownInv /\ [Next]_vars => ShownInv'
  BY ShownStep, ShownStutter
<1>3. ShownInv => AnswersWhatItShowed
  BY DEF ShownInv
<1>4. QED BY <1>1, <1>2, <1>3, Invariant, PTL DEF Spec
=============================================================================
