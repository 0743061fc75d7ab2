----------------------------- MODULE Dashboard ------------------------------
(* The pinned message of General: app/dashboard.go, with its id and its     *)
(* creation marker in the shared mapping (reconciler.go, mapping_store.go). *)
(*                                                                          *)
(* The message is created, edited in place, recreated when Telegram lost    *)
(* it, removed when the option is off.  The daemon loop does one call or    *)
(* one save after another; the option is switched by the bridge; the daemon *)
(* may be killed between any two steps, and its supervisor starts it again. *)
(* The body, all a refresh compares, is a number; footer and pin are left   *)
(* out.                                                                     *)
EXTENDS Integers, Sequences, FiniteSets

CONSTANT BoardWorlds  \* budgets of changes and faults

Absent == 0
Off == -1     \* dashboardOffText

VARIABLES
  post,    \* Telegram: per message, the body it shows, Off, or Absent
  disk,    \* mapping.json and options.json
  mem,     \* the daemon's copy, and what it remembers of the message
  at,      \* where the loop is in its refresh, and the body it renders
  body,    \* what the agents would show now
  spare,   \* the budgets left
  forgot   \* history: the messages the daemon forgot while they may be there

boardVars == <<post, disk, mem, at, body, spare, forgot>>

Uses(field) == spare[field] > 0 /\ spare' = [spare EXCEPT ![field] = @ - 1]
There(id) == id # 0 /\ post[id] # Absent
LiveLooking == {id \in DOMAIN post : post[id] \notin {Absent, Off}}
To(pc) == at' = [at EXCEPT !.pc = pc]

(* An error that is not a cancelled context ends the daemon (handleErr).    *)
DownMem == [id |-> 0, pending |-> FALSE, on |-> FALSE, dirty |-> FALSE, shown |-> 0, has |-> FALSE, timer |-> FALSE]
Dies == mem' = DownMem /\ at' = [pc |-> "down", body |-> 0, new |-> 0]

------------------------------------------------------------------------------
(* Schedule arms the timer, unless there is nothing to show or to remove.   *)
Schedule(m) == IF m.on \/ m.has THEN [m EXCEPT !.timer = TRUE] ELSE m

(* Reconciler.save: the file is replaced whole, or the mapping is dirty.    *)
Saved(m) == /\ disk' = [disk EXCEPT !.id = m.id, !.pending = m.pending]
            /\ mem' = [m EXCEPT !.dirty = FALSE] /\ UNCHANGED spare
NotSaved(m) == /\ Uses("saves") /\ mem' = [m EXCEPT !.dirty = TRUE] /\ UNCHANGED disk

(* SetDashboardID: the id is recorded and the marker is cleared with it.    *)
SetID(id) == [mem EXCEPT !.id = id, !.pending = FALSE, !.has = id # 0]
Unset == mem.id = 0 /\ ~mem.pending /\ ~mem.dirty

(* A failing save ends the daemon everywhere but in Repin.                  *)
SaveOrEnd(m, pc) == \/ Saved(m) /\ To(pc)
                    \/ Uses("saves") /\ Dies /\ UNCHANGED disk

------------------------------------------------------------------------------
(* The start: NewDashboard, then Repin and a first refresh.                 *)
Start ==
  /\ at.pc = "down"
  /\ mem' = [DownMem EXCEPT !.id = disk.id, !.pending = disk.pending, !.on = disk.on, !.has = disk.id # 0]
  /\ To("repin") /\ UNCHANGED <<post, disk, body, spare>>

(* A pin that fails otherwise is tried once more and left.                  *)
Repin ==
  /\ at.pc = "repin"
  /\ IF mem.id # 0 /\ mem.on /\ ~There(mem.id)
     THEN Saved(SetID(0)) \/ NotSaved(SetID(0))
     ELSE UNCHANGED <<mem, disk, spare>>
  /\ To("start") /\ UNCHANGED <<post, body>>

FirstSchedule ==
  /\ at.pc = "start" /\ mem' = Schedule(mem) /\ To("loop")
  /\ UNCHANGED <<post, disk, body, spare>>

(* Observe: an event of an agent changes the body, and so does time, which  *)
(* schedules nothing.                                                       *)
Changes ==
  /\ Uses("bodies") /\ body' = body + 1
  /\ mem' \in {mem} \cup IF at.pc = "loop" THEN {Schedule(mem)} ELSE {}
  /\ UNCHANGED <<post, disk, at>>

(* Options.Set on the bridge, at any step of the loop, with its hook.       *)
Switch ==
  /\ at.pc \notin {"down", "repin", "start"} /\ Uses("switches")
  /\ disk' = [disk EXCEPT !.on = ~@]
  /\ mem' = Schedule([mem EXCEPT !.on = ~@])
  /\ UNCHANGED <<post, at, body>>

DeletedByHand ==
  /\ Uses("deleted") /\ \E id \in LiveLooking : post' = [post EXCEPT ![id] = Absent]
  /\ UNCHANGED <<disk, mem, at, body>>

------------------------------------------------------------------------------
(* refresh, from the timer or the minute tick.                              *)
Fire ==
  /\ at.pc = "loop" /\ mem.timer
  /\ mem' = [mem EXCEPT !.timer = FALSE] /\ To("persist")
  /\ UNCHANGED <<post, disk, body, spare>>

MinuteTick ==
  /\ at.pc = "loop" /\ To("persist") /\ UNCHANGED <<post, disk, mem, body, spare>>

PersistPending ==
  /\ at.pc = "persist"
  /\ IF mem.dirty THEN SaveOrEnd(mem, "decide") ELSE To("decide") /\ UNCHANGED <<disk, mem, spare>>
  /\ UNCHANGED <<post, body>>

Unchanged == mem.id # 0 /\ body = mem.shown
Decided == CASE ~mem.on /\ mem.id = 0 -> "loop"
             [] ~mem.on -> "unpin"
             [] Unchanged -> "loop"
             [] mem.id # 0 -> "edit"
             [] OTHER -> "intend"
Refresh ==
  /\ at.pc = "decide"
  /\ at' = [at EXCEPT !.body = body, !.new = 0, !.pc = Decided]
  /\ UNCHANGED <<post, disk, mem, body, spare>>

(* An edit: done, done without an answer, not done, refused for good, or    *)
(* the message is gone and a new one is made.                               *)
RememberedEarly(out) == at.body   \* mutant: the hash is kept before the answer
Remembered(out) == IF out = "ok" THEN at.body ELSE mem.shown

Edit ==
  /\ at.pc = "edit" /\ UNCHANGED <<disk, body>>
  /\ \/ /\ There(mem.id) /\ \E out \in {"ok", "lost", "down"} :
             /\ IF out = "ok" THEN UNCHANGED spare ELSE Uses("edits")
             /\ post' = IF out = "down" THEN post ELSE [post EXCEPT ![mem.id] = at.body]
             /\ mem' = [mem EXCEPT !.shown = Remembered(out)]
        /\ To("loop")
     \/ ~There(mem.id) /\ To("intend") /\ UNCHANGED <<post, mem, spare>>
     \/ Uses("fatals") /\ Dies /\ UNCHANGED post

(* The marker is on disk before the call; one that is already there means   *)
(* the outcome of an earlier call is not known.                             *)
BlockedNever == FALSE   \* mutant: the marker is not looked at
Blocked == mem.pending

Intend ==
  /\ at.pc = "intend" /\ UNCHANGED <<post, body>>
  /\ IF Blocked THEN Dies /\ UNCHANGED <<disk, spare>>
     ELSE SaveOrEnd([mem EXCEPT !.pending = TRUE], "send")

(* One try of the call queue per step.  A try whose answer is lost or is a  *)
(* 5xx is repeated (Queue.execute, isRetryable), so a message of each try   *)
(* may be in the chat and only the id of the last one comes back; the queue *)
(* may give up after it as well, or be refused at a later try.              *)
Tried(pc) == at' = [at EXCEPT !.pc = pc, !.new = Len(post) + 1] /\ UNCHANGED mem
SendNew ==
  /\ at.pc = "send" /\ UNCHANGED <<disk, body>>
  /\ \/ /\ post' = Append(post, at.body)
        /\ \/ Tried("record") /\ UNCHANGED spare
           \/ Uses("repeats") /\ Tried("send")                    \* no answer: once more
           \/ Uses("sends") /\ Dies                               \* no answer: given up
     \/ Uses("sends") /\ Dies /\ UNCHANGED post                    \* not sent
     \/ Uses("fatals") /\ To("withdraw") /\ UNCHANGED <<post, mem>> \* refused

(* Refused for good: the marker is taken back; a migrated chat is no end.   *)
Withdraw ==
  /\ at.pc = "withdraw" /\ UNCHANGED <<post, body>>
  /\ \/ SaveOrEnd([mem EXCEPT !.pending = FALSE], "loop")
     \/ Dies /\ disk' = [disk EXCEPT !.pending = FALSE, !.id = mem.id] /\ UNCHANGED spare

Record ==
  /\ at.pc = "record" /\ UNCHANGED <<post, body>>
  /\ SaveOrEnd([SetID(at.new) EXCEPT !.shown = at.body], "loop")

------------------------------------------------------------------------------
(* remove: unpin, delete, or mark it off; then it is forgotten.             *)
Unpin == at.pc = "unpin" /\ To("delete") /\ UNCHANGED <<post, disk, mem, body, spare>>

Delete ==
  /\ at.pc = "delete" /\ UNCHANGED <<disk, body>>
  /\ \/ /\ post' = [post EXCEPT ![mem.id] = Absent] /\ To("forget")
        /\ UNCHANGED <<mem, spare>>
     \/ Uses("refusals") /\ There(mem.id) /\ To("note") /\ UNCHANGED <<post, mem>>
     \/ Uses("fatals") /\ Dies /\ UNCHANGED post
     \/ Uses("edits") /\ To("loop") /\ UNCHANGED <<post, mem>>       \* cancelled

OffNote ==
  /\ at.pc = "note" /\ UNCHANGED <<disk, body>>
  /\ \/ /\ post' = IF There(mem.id) THEN [post EXCEPT ![mem.id] = Off] ELSE post
        /\ To("forget") /\ UNCHANGED <<mem, spare>>
     \/ Uses("notes") /\ To("forget") /\ UNCHANGED <<post, mem>>     \* failed, and forgotten all the same
     \/ Uses("fatals") /\ Dies /\ UNCHANGED post

Forget ==
  /\ at.pc = "forget" /\ UNCHANGED <<post, body>>
  /\ SaveOrEnd([SetID(0) EXCEPT !.shown = 0], "loop")

------------------------------------------------------------------------------
(* The daemon is killed, or stops: the last footer changes no body.         *)
Crash ==
  /\ at.pc # "down" /\ Uses("crashes") /\ Dies
  /\ UNCHANGED <<post, disk, body>>

(* What behaviour.md asks of the operator: the id of a message that is      *)
(* there, or no marker.                                                     *)
Resolve ==
  /\ at.pc = "down" /\ disk.pending /\ Uses("resolved")
  /\ \E id \in IF LiveLooking = {} THEN {disk.id} ELSE LiveLooking :
       disk' = [disk EXCEPT !.pending = FALSE, !.id = id]
  /\ UNCHANGED <<post, mem, at, body>>

OtherSave ==
  /\ at.pc = "loop" /\ mem.dirty /\ Saved(mem)
  /\ UNCHANGED <<post, at, body>>

BoardStarts(pc, worlds) ==
  /\ spare \in worlds
  /\ post = <<>> /\ body = 1
  /\ disk = [id |-> 0, pending |-> FALSE, on |-> TRUE]
  /\ mem = DownMem /\ at = [pc |-> pc, body |-> 0, new |-> 0] /\ forgot = {}
BoardInit == BoardStarts("down", BoardWorlds)

(* Four steps forget a message that may be there: the id is given up, and   *)
(* with it the marker of a call whose outcome is not known; the note on a   *)
(* message that is there could not be written; a try without an answer is   *)
(* followed by another one, or by a refusal; the operator names one message *)
(* of several.                                                              *)
GivesUpMarker == /\ <<at.pc, at'.pc>> \in {<<"repin", "start">>, <<"forget", "loop">>}
                 /\ mem.pending /\ ~mem'.pending
LeavesNote == /\ at.pc = "note" /\ at'.pc = "forget"
              /\ There(mem.id) /\ UNCHANGED post
PassesOver == at.pc = "send" /\ (at'.pc = "withdraw" \/ post' # post)
Resolved == at.pc = "down" /\ disk.pending /\ ~disk'.pending
Forgotten == IF GivesUpMarker THEN LiveLooking
             ELSE IF LeavesNote THEN {mem.id}
             ELSE IF PassesOver THEN {at.new}
             ELSE IF Resolved THEN LiveLooking \ {disk'.id} ELSE {}
Noted(step) == step /\ forgot' = forgot \cup Forgotten

BoardMove == \/ Start \/ Repin \/ FirstSchedule \/ Fire \/ PersistPending \/ Refresh \/ Edit \/ Intend
            \/ SendNew \/ Withdraw \/ Record \/ Unpin \/ Delete \/ OffNote \/ Forget
BoardStep == Noted(BoardMove)
BoardNext == Noted(BoardMove \/ MinuteTick \/ Changes \/ Switch \/ DeletedByHand \/ Crash \/ Resolve \/ OtherSave)

(* The loop runs, the supervisor starts it again, minutes pass.             *)
BoardFairness == WF_boardVars(BoardStep) /\ WF_boardVars(Noted(MinuteTick))

------------------------------------------------------------------------------
(* Of the messages that look like the dashboard at most one is not          *)
(* forgotten, whatever is lost and whenever the daemon dies: one more comes *)
(* only of one call that was repeated or one of the other steps above (the  *)
(* README tells how the daemon comes to them), never of a second call.      *)
OneDashboard == Cardinality(LiveLooking \ forgot) <= 1

(* In the end the message whose id is recorded shows what the agents do, or *)
(* is gone when it is switched off, with every other one that was not       *)
(* forgotten; unless the marker waits for the operator, or the message was  *)
(* deleted by hand and nothing has changed since.  A forgotten message      *)
(* stays as it is.                                                          *)
Settled == \/ at.pc # "loop" \/ mem.pending
           \/ IF mem.on THEN mem.id # 0 /\ IF There(mem.id) THEN post[mem.id] = body ELSE mem.shown = body
              ELSE mem.id = 0 /\ LiveLooking \subseteq forgot
DashboardSettles == <>[]Settled
=============================================================================
