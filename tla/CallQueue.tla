----------------------------- MODULE CallQueue ------------------------------
(* Every call to Telegram: adapters/telegram/queue.go, errors.go, the calls *)
(* of gateway.go and the deletion of the bot's own notices (inbound.go).    *)
(*                                                                          *)
(* A caller puts its call on the queue of its destination and waits.  The   *)
(* queue makes one call at a time, spaced by Gap and by at most Limit in    *)
(* any Window, and tries again what may pass.  Either side may end first:   *)
(* the caller's context, or the queue's.                                    *)
(*                                                                          *)
(* Time is kept as ages: a stamp is how long ago an attempt was made, up to *)
(* Window; a sleep is what is left of it.  A text is its number of parts.   *)
EXTENDS Integers, Sequences, FiniteSets, SequencesExt

CONSTANTS Callers,      \* goroutines that call Telegram
          Gap, Limit, Window,   \* one second, twenty a minute, a minute
          Tries,        \* attempts of the group's queue: five
          QueueBuffer,  \* calls waiting in a queue: 64
          NoticeCap,    \* notices waiting for their deletion: 256
          CallWorlds    \* the calls made and the faults met

Lanes == {"group", "private"}
SameErrors == {"none", "topic same", "message same"}     \* what means that it is already so

ASSUME CallAssumption == /\ Gap \in Nat \ {0} /\ Limit \in Nat \ {0} /\ Window \in Nat \ {0}
                         /\ Tries \in Nat \ {0} /\ QueueBuffer \in Nat \ {0} /\ NoticeCap \in Nat
                         /\ "none" \notin Callers
ASSUME CallsAssumption ==
  CallWorlds \subseteq [ops : SUBSET [lane : Lanes, parts : Nat, once : BOOLEAN, same : SameErrors,
                                     guarded : BOOLEAN, markdown : BOOLEAN, notice : BOOLEAN],
                       calls : Nat, faults : Nat, ends : Nat, stops : Nat, revokes : Nat,
                       answers : SUBSET [code : Nat, desc : STRING]]

VARIABLES
  queue,    \* per lane: its goroutine, its buffer, its ring of stamps
  call,     \* per caller: the call it makes
  chat,     \* what Telegram took: <<caller, part>>
  recent,   \* per lane: the ages of its attempts, oldest first
  stopping, \* the context of the Telegram runner is done
  granted,  \* the dispatch guard of the private calls lets them through
  budget    \* calls, faults and ends of this behaviour

callVars == <<queue, call, chat, recent, stopping, granted, budget>>

------------------------------------------------------------------------------
(* The answers: what Telegram or the transport says, what translate makes   *)
(* of it, and what the queue does about that.  "lost" was carried out and   *)
(* its answer did not arrive; "down" was not.                               *)
Classify400(desc) ==
  CASE desc \in {"thread not found", "topic not found", "topic_deleted", "topic_id_invalid"} -> "topic gone"
    [] desc = "topic_closed" -> "topic closed"
    [] desc = "topic_not_modified" -> "topic same"
    [] desc = "message is not modified" -> "message same"
    [] desc = "message to edit not found" -> "message gone"
    [] OTHER -> "bad request"

Translate(code, desc) ==
  CASE code = 401 -> "unauthorized"
    [] code = 403 -> "forbidden"
    [] code = 409 -> "conflict"
    [] code = 429 -> "flood"
    [] desc = "migrated" -> "migrated"
    [] code = 400 -> Classify400(desc)
    [] code = 404 -> "not found"
    [] OTHER -> "transient"        \* 5xx, transport, decode

IsRetryable(err, once) == ~once /\ err \in {"flood", "transient"}

IsMarkupError(err, desc) == err = "bad request" /\ desc = "can't parse entities"

Answer(code, desc) == [code |-> code, desc |-> desc]
Fine == Answer(200, "ok")
Lost == Answer(500, "lost")
TakenBy(a) == a \in {Fine, Lost}

(* Waits: what a 429 asks for, given up above MaxWait, else the square of   *)
(* the try, all as long as the Gap here.                                    *)
GivesUp(a) == a.code = 429 /\ a.desc = "long"

------------------------------------------------------------------------------
(* The calls of the gateway.  same: the error that means it is already so;  *)
(* guarded: asks the policy before every attempt; markdown: a part Telegram *)
(* cannot parse goes out once more as plain text.                           *)
Op(lane, parts) == [lane |-> lane, parts |-> parts, once |-> FALSE, same |-> "none",
                    guarded |-> lane = "private", markdown |-> FALSE, notice |-> FALSE]
Lane(chatid) == IF chatid = "guest" THEN "private" ELSE "group"     \* destinationQueue

CreateTopicAt(c) == [Op(Lane(c), 1) EXCEPT !.once = c = "guest"]
EditTopicAt(c) == [Op(Lane(c), 1) EXCEPT !.same = "topic same"]
EmptyPatch == Op("group", 0)
CloseTopic == Op("group", 1)
ReopenTopic == Op("group", 1)
DeleteTopicAt(c) == Op(Lane(c), 1)
Rights == Op("group", 2)                        \* getChat, then getChatMember
Identity == Op("group", 1)
Send(c, parts, md) == [Op(Lane(c), parts) EXCEPT !.markdown = md]
EditTextAt(c) == [Op(Lane(c), 1) EXCEPT !.same = "message same"]
EditButtonsAt(c) == [Op(Lane(c), 1) EXCEPT !.same = "message same"]
DocumentAt(c) == Op(Lane(c), 1)
ReactAt(c) == Op(Lane(c), 1)
ProbeDirect == Op("group", 1)                   \* to a user, on the group's queue
PinAt(c) == Op(Lane(c), 1)
UnpinAt(c) == Op(Lane(c), 1)
DeleteMessageAt(c) == Op(Lane(c), 1)
PrivateCommands == Op("group", 1)
Notice(c) == [Op(Lane(c), 1) EXCEPT !.guarded = FALSE, !.notice = TRUE]

------------------------------------------------------------------------------
Nothing == [pc |-> "idle", op |-> Op("group", 0), part |-> 0, plain |-> FALSE,
            ended |-> "no", tried |-> FALSE, done |-> "none", result |-> "none"]

MaxTries(l) == IF l = "group" THEN Tries ELSE 1
Min2(a, b) == IF a < b THEN a ELSE b
Max2(a, b) == IF a > b THEN a ELSE b

(* pace: what the ring says is left of the gap and of the window.           *)
Full(q) == q.count = Limit
NewestNext(q) == q.stamps[((q.head + q.count) % Limit) + 1]
Newest(q) == q.stamps[((q.head + q.count - 1) % Limit) + 1]
Oldest(q) == q.stamps[q.head + 1]
PaceWait(q) == Max2(IF q.count > 0 THEN Max2(0, Gap - Newest(q)) ELSE 0,
                    IF Full(q) THEN Max2(0, Window - Oldest(q)) ELSE 0)

(* stamp: the oldest gives way once the ring is full.                       *)
Stamped(q) ==
  IF Full(q)
  THEN [q EXCEPT !.stamps[q.head + 1] = 0, !.head = (q.head + 1) % Limit]
  ELSE [q EXCEPT !.stamps[((q.head + q.count) % Limit) + 1] = 0, !.count = @ + 1]

Spends(field) == budget[field] > 0 /\ budget' = [budget EXCEPT ![field] = @ - 1]

(* The caller's context: cancelled, or timed out, as that of every private  *)
(* call is after two seconds.                                               *)
Over(c) == call[c].ended # "no"
Interrupted(l) == stopping \/ Over(queue[l].job)

------------------------------------------------------------------------------
(* Do: enqueue, then wait for the outcome, the end of the caller's context  *)
(* or the end of the queue.                                                 *)
Pending(c) == {d \in Callers \ {c} : call[d].op.notice /\ call[d].pc \in {"delay", "enqueue", "wait"}}

(* onOwnService: not twice for one message, and not above the cap; the      *)
(* delay of the notice comes first.                                         *)
Admits(c, op) == op.notice => Cardinality(Pending(c)) < NoticeCap

Calls(c) ==
  /\ call[c].pc = "idle" /\ Spends("calls")
  /\ \E op \in budget.ops :
       call' = [call EXCEPT ![c] =
         IF ~Admits(c, op) THEN @
         ELSE [Nothing EXCEPT !.op = op, !.part = 1,
                 !.pc = IF op.notice THEN "delay" ELSE IF op.parts = 0 THEN "done" ELSE "enqueue",
                 !.result = IF op.parts = 0 THEN "ok" ELSE "none"]]
  /\ UNCHANGED <<queue, chat, recent, stopping, granted>>

Returned(c, res) == [call[c] EXCEPT !.pc = "done", !.result = res]

(* noticeSleep, or the notice is to be kept.                                *)
Delayed(c) ==
  /\ call[c].pc = "delay"
  /\ \/ call' = [call EXCEPT ![c].pc = "enqueue"]
     \/ call' = [call EXCEPT ![c] = Returned(c, "kept")]
  /\ UNCHANGED <<queue, chat, recent, stopping, granted, budget>>

Enqueue(c) ==
  LET l == call[c].op.lane
  IN /\ call[c].pc = "enqueue"
     /\ \/ /\ Len(queue[l].jobs) < QueueBuffer
           /\ queue' = [queue EXCEPT ![l].jobs = Append(@, c)]
           /\ call' = [call EXCEPT ![c].pc = "wait", ![c].done = "none", ![c].tried = FALSE]
        \/ Over(c) /\ call' = [call EXCEPT ![c] = Returned(c, "cancelled")] /\ UNCHANGED queue
        \/ queue[l].pc = "stopped" /\ call' = [call EXCEPT ![c] = Returned(c, "stopped")] /\ UNCHANGED queue
     /\ UNCHANGED <<chat, recent, stopping, granted, budget>>

(* One part is through: the next one, or the whole call is.  The first      *)
(* failure stops the rest; a markup error sends the part once more.         *)
LastPart(k) == k.part = k.op.parts
GoesOn(k, res) == IF LastPart(k) THEN [k EXCEPT !.pc = "done", !.result = res]
                  ELSE [k EXCEPT !.pc = "enqueue", !.done = "none", !.tried = FALSE, !.part = @ + 1]
Continues(k, res) ==
  CASE res = "ok" /\ ~LastPart(k) -> [k EXCEPT !.pc = "enqueue", !.done = "none", !.tried = FALSE,
                                                  !.part = @ + 1, !.plain = FALSE]
    [] res = "markup" /\ k.op.markdown /\ ~k.plain -> [k EXCEPT !.pc = "enqueue", !.done = "none", !.tried = FALSE,
                                                                        !.plain = TRUE]
    [] res = k.op.same -> [k EXCEPT !.pc = "done", !.result = "ok"]
    [] OTHER -> [k EXCEPT !.pc = "done", !.result = res]

GivenBack(c) == call[c].done # "none"
NoLonger(c) == Over(c)
QueueNeverGone(c) == FALSE
QueueGone(c) == queue[call[c].op.lane].pc = "stopped"

Returns(c) ==
  /\ call[c].pc = "wait"
  /\ \/ GivenBack(c) /\ call' = [call EXCEPT ![c] = Continues(@, @.done)]
     \/ NoLonger(c) /\ call' = [call EXCEPT ![c] = Returned(c, "cancelled")]
     \/ QueueGone(c) /\ call' = [call EXCEPT ![c] = Returned(c, "stopped")]
  /\ UNCHANGED <<queue, chat, recent, stopping, granted, budget>>

(* A context ends while the call is queued or running.                      *)
GiveUp(c) ==
  /\ call[c].pc \in {"enqueue", "wait"} /\ ~Over(c) /\ Spends("ends")
  /\ call' = [call EXCEPT ![c].ended = IF call[c].done # "none" \/ \E l \in Lanes : queue[l].job = c
                                           THEN "running" ELSE "queued"]
  /\ UNCHANGED <<queue, chat, recent, stopping, granted>>

(* A right is withdrawn between two attempts.                               *)
Revoke ==
  /\ granted /\ Spends("revokes") /\ granted' = FALSE
  /\ UNCHANGED <<queue, call, chat, recent, stopping>>

------------------------------------------------------------------------------
(* The queue's goroutine.                                                   *)
Ends(l, res) == /\ queue' = [queue EXCEPT ![l] = [@ EXCEPT !.pc = IF stopping THEN "draining" ELSE "idle",
                                                            !.job = "none"]]
                /\ call' = [call EXCEPT ![queue[l].job].done = res]

FirstTry(q) == [q EXCEPT !.jobs = Tail(@), !.job = Head(q.jobs), !.pc = "pace", !.try = 1, !.wait = PaceWait(q)]
NextTry(q) == [q EXCEPT !.pc = "pace", !.try = @ + 1, !.wait = PaceWait(q)]

(* A call whose caller has left is answered without being made.             *)
Skips(c) == Over(c)
Take(l) ==
  /\ queue[l].pc = "idle" /\ queue[l].jobs # <<>>
  /\ LET c == Head(queue[l].jobs)
     IN IF Skips(c)
        THEN /\ queue' = [queue EXCEPT ![l].jobs = Tail(@)]
             /\ call' = [call EXCEPT ![c].done = "cancelled"]
        ELSE /\ queue' = [queue EXCEPT ![l] = FirstTry(@)]
             /\ UNCHANGED call
  /\ UNCHANGED <<chat, recent, stopping, granted, budget>>

(* The attempt: stamped, then the guard is asked, then the call is out.     *)
Attempt(l) ==
  /\ queue[l].pc = "pace" /\ queue[l].wait = 0 /\ ~stopping
  /\ LET c == queue[l].job
         denied == call[c].op.guarded /\ ~granted
     IN /\ queue' = [queue EXCEPT ![l] = [Stamped(@) EXCEPT !.pc = IF denied THEN "idle" ELSE "calling",
                                                            !.job = IF denied THEN "none" ELSE c]]
        /\ call' = [call EXCEPT ![c].done = IF denied THEN "denied" ELSE @, ![c].tried = ~denied]
  /\ recent' = [recent EXCEPT ![l] = Append(@, 0)]
  /\ UNCHANGED <<chat, stopping, granted, budget>>

Taken(l, a) == chat' = IF TakenBy(a) THEN Append(chat, <<queue[l].job, call[queue[l].job].part>>) ELSE chat

(* execute, the answer: done, final, or another try after a wait.           *)
Answered(l, a) ==
  LET k == call[queue[l].job]
      err == Translate(a.code, a.desc)
  IN /\ queue[l].pc = "calling" /\ (stopping => a = Fine)
     /\ IF a = Fine THEN UNCHANGED budget ELSE Spends("faults")
     /\ Taken(l, a)
     /\ IF a # Fine /\ IsRetryable(err, k.op.once) /\ queue[l].try < MaxTries(l) /\ ~GivesUp(a)
        THEN /\ queue' = [queue EXCEPT ![l] = [@ EXCEPT !.pc = "backoff", !.wait = Gap]]
             /\ UNCHANGED call
        ELSE Ends(l, IF a = Fine THEN "ok" ELSE IF IsMarkupError(err, a.desc) THEN "markup" ELSE err)
     /\ UNCHANGED <<recent, stopping, granted>>

TriesAgain(l) ==
  /\ queue[l].pc = "backoff" /\ queue[l].wait = 0
  /\ queue' = [queue EXCEPT ![l] = NextTry(@)]
  /\ UNCHANGED <<call, chat, recent, stopping, granted, budget>>

(* A sleep or a call is cut short by either context; a call that was out    *)
(* may have been carried out.  The runner's end is told before the caller's.*)
Interrupt(l) ==
  /\ queue[l].pc \in {"pace", "calling", "backoff"} /\ Interrupted(l)
  /\ \E a \in IF queue[l].pc = "calling" THEN {Lost, Answer(0, "down")} ELSE {Answer(0, "down")} : Taken(l, a)
  /\ Ends(l, IF stopping THEN "stopped" ELSE "cancelled")
  /\ UNCHANGED <<recent, stopping, granted, budget>>

Stop ==
  /\ ~stopping /\ Spends("stops") /\ stopping' = TRUE
  /\ UNCHANGED <<queue, call, chat, recent, granted>>

(* Run returns: stopped is closed, and what waits is answered.  A call that *)
(* comes after that stays in the buffer.                                    *)
Drain(l) ==
  /\ queue[l].pc \in {"idle", "draining"} /\ stopping
  /\ queue' = [queue EXCEPT ![l] = [@ EXCEPT !.pc = "stopped", !.jobs = <<>>]]
  /\ call' = [c \in Callers |-> IF Contains(queue[l].jobs, c) THEN [call[c] EXCEPT !.done = "stopped"] ELSE call[c]]
  /\ UNCHANGED <<chat, recent, stopping, granted, budget>>

Aged(ages) == [i \in DOMAIN ages |-> Min2(ages[i] + 1, Window)]
Waited(q) == [q EXCEPT !.wait = Max2(0, @ - 1), !.stamps = Aged(@)]
Tick ==
  /\ queue' = [l \in Lanes |-> Waited(queue[l])]
  /\ recent' = [l \in Lanes |-> Aged(recent[l])]
  /\ UNCHANGED <<call, chat, stopping, granted, budget>>

------------------------------------------------------------------------------
CallStarts(worlds) ==
  /\ budget \in worlds
  /\ queue = [l \in Lanes |-> [pc |-> "idle", jobs |-> <<>>, job |-> "none", try |-> 0, wait |-> 0,
                               stamps |-> [i \in 1..Limit |-> Window], head |-> 0, count |-> 0]]
  /\ call = [c \in Callers |-> Nothing]
  /\ chat = <<>> /\ recent = [l \in Lanes |-> <<>>]
  /\ stopping = FALSE /\ granted = TRUE
CallInit == CallStarts(CallWorlds)

QueueStep(l) == \/ Take(l) \/ Attempt(l) \/ TriesAgain(l) \/ Interrupt(l) \/ Drain(l)
                \/ \E a \in budget.answers : Answered(l, a)
CallerStep(c) == Delayed(c) \/ Enqueue(c) \/ Returns(c)

CallNext == \/ \E l \in Lanes : QueueStep(l)
            \/ \E c \in Callers : CallerStep(c) \/ Calls(c) \/ GiveUp(c)
            \/ Revoke \/ Stop \/ Tick

(* Goroutines run and time passes.                                          *)
CallFairness == /\ \A l \in Lanes : WF_callVars(QueueStep(l))
                /\ \A c \in Callers : WF_callVars(CallerStep(c))
                /\ WF_callVars(Tick)

------------------------------------------------------------------------------
(* Telegram's limits are kept, retries included: never two attempts closer  *)
(* than the gap, and never one less than a window after the attempt that is *)
(* Limit attempts back (an age stops at Window).                            *)
Spaced(ages) ==
  \A i \in 1..Len(ages) :
    /\ i < Len(ages) /\ ages[i] < Window => ages[i] - ages[i + 1] >= Gap
    /\ i + Limit <= Len(ages) => ages[i] = Window
RateHolds == \A l \in Lanes : Spaced(recent[l])

(* What a chat shows of a message are its parts from the first on, each    *)
(* after the one before it; a call that reports success has all of them     *)
(* there, unless it was already so, and one that was given up while it      *)
(* waited is not made.                                                      *)
Follows(c) == \A j \in DOMAIN chat : \A p \in 2..call[c].op.parts :
                chat[j] = <<c, p>> => \E i \in 1..(j - 1) : chat[i] = <<c, p - 1>>
Shown(c, p) == \E i \in DOMAIN chat : chat[i] = <<c, p>>
PartsInOrder ==
  \A c \in Callers :
    /\ Follows(c)
    /\ call[c].result = "ok" /\ call[c].op.same = "none" => \A p \in 1..call[c].op.parts : Shown(c, p)
    /\ call[c].ended = "queued" => ~call[c].tried

(* Every call returns, when the queue or the runner has ended too.          *)
EveryCallReturns == \A c \in Callers : (call[c].pc \in {"enqueue", "wait"}) ~> (call[c].pc \in {"idle", "done"})
=============================================================================
