------------------------------ MODULE MCDaemon ------------------------------
(* Three parts of one daemon process, each explored while the others rest.  *)
EXTENDS DaemonLoop, CallQueue, Dashboard

(* The loop. *)
Up(what, from, place) == [what |-> what, from |-> from, place |-> place, old |-> FALSE]
Typed == Up("text", "operator", "topic")
Calm == [acts |-> 0, updates |-> 0, kinds |-> {Typed}, polls |-> 0, fails |-> 0, fatals |-> 0,
         conflicts |-> 0, stops |-> 0, sockets |-> 0, enabled |-> FALSE, desk |-> FALSE,
         samples |-> {<<"idle", "absent">>}, rights |-> {FALSE}]
Busy == [Calm EXCEPT !.updates = 6]
Guests == [Calm EXCEPT !.updates = 3, !.acts = 1, !.kinds = {Typed, Up("private", "stranger", "private")}]
Desk == [Calm EXCEPT !.updates = 1, !.polls = 2, !.enabled = TRUE,
         !.kinds = {Up(w, "operator", "general") : w \in {"goaway", "here", "quiet"}},
         !.samples = {<<"active", "absent">>, <<"nosource", "idle">>, <<"error", "absent">>, <<"absent", "nosource">>}]
Hand == [Desk EXCEPT !.desk = TRUE, !.polls = 1, !.acts = 1, !.samples = {<<"nosource", "absent">>}]
Leaving == [Calm EXCEPT !.updates = 1, !.kinds = {Up("new", "operator", "general")},
            !.fatals = 1, !.stops = 1, !.fails = 1]
Cut == [Calm EXCEPT !.acts = 1, !.updates = 1, !.conflicts = 1, !.sockets = 1]
Rightless == [Calm EXCEPT !.updates = 2, !.fails = 1, !.rights = BOOLEAN,
              !.kinds = {Up("member", "lost", "group"), Up("member", "regained", "group"), Up("sync", "operator", "general")}]
Mixed == [Calm EXCEPT !.updates = 1, !.fails = 1,
          !.kinds = {Up("closed", "operator", "topic"), Up("pager", "operator", "general"), Up("press", "operator", "topic"),
                     Up("delete", "operator", "general"), Up("text", "stranger", "topic"),
                     [Typed EXCEPT !.old = TRUE], [Typed EXCEPT !.place = "elsewhere"]}]
AllLoops == {Busy, Guests, Desk, Hand, Leaving, Cut, Rightless, Mixed}

(* The calls. *)
NoCalls == [ops |-> {}, calls |-> 0, faults |-> 0, ends |-> 0, stops |-> 0, revokes |-> 0, answers |-> {Fine}]
TwoCalls == [NoCalls EXCEPT !.calls = 2]
GroupOps == {CreateTopicAt("group"), EditTopicAt("group"), EmptyPatch, CloseTopic, ReopenTopic, DeleteTopicAt("group"),
             Rights, Identity, EditTextAt("group"), EditButtonsAt("group"), DocumentAt("group"), ReactAt("group"),
             ProbeDirect, PinAt("group"), UnpinAt("group"), DeleteMessageAt("group"), PrivateCommands}
Paced == [TwoCalls EXCEPT !.ops = {Send("group", 2, TRUE)}, !.faults = 1,
          !.answers = {Fine, Lost, Answer(429, "short"), Answer(400, "can't parse entities")}]
Refusals == {Fine, Answer(400, "migrated"), Answer(429, "long"), Answer(0, "down")}
            \cup {Answer(400, d) : d \in {"topic_deleted", "topic_closed", "topic_not_modified", "message is not modified",
                                          "message to edit not found", "chat not found"}}
            \cup {Answer(c, "no") : c \in {401, 403, 404, 409}}
Refusing == [NoCalls EXCEPT !.calls = 1, !.ops = GroupOps, !.faults = 1, !.answers = Refusals]
Ending == [TwoCalls EXCEPT !.ops = {CloseTopic}, !.ends = 1, !.faults = 1, !.answers = {Fine, Answer(0, "down")}]
Direct == [TwoCalls EXCEPT !.calls = 1, !.ops = {CreateTopicAt("guest"), Send("guest", 2, FALSE)}, !.revokes = 1, !.ends = 1,
           !.faults = 1, !.answers = {Fine, Lost}]
Noticed == [TwoCalls EXCEPT !.ops = {CloseTopic, Notice("group")}, !.stops = 1, !.faults = 1]
AllCalls == {Paced, Refusing, Ending, Direct, Noticed}

(* The dashboard. *)
NoBoard == [bodies |-> 0, switches |-> 0, deleted |-> 0, saves |-> 0, edits |-> 0, sends |-> 0, repeats |-> 0,
            fatals |-> 0, refusals |-> 0, notes |-> 0, crashes |-> 0, resolved |-> 0]
Board == [NoBoard EXCEPT !.bodies = 1]
Unsure == [Board EXCEPT !.sends = 1, !.repeats = 1, !.crashes = 1, !.saves = 1, !.edits = 1, !.fatals = 1, !.resolved = 1, !.switches = 1]
Removed == [Board EXCEPT !.switches = 2, !.crashes = 1, !.refusals = 1, !.edits = 1]
Recreated == [Board EXCEPT !.deleted = 1, !.switches = 1, !.edits = 1, !.bodies = 2]
Unwritten == [Board EXCEPT !.deleted = 1, !.saves = 1, !.switches = 1, !.crashes = 1, !.refusals = 1, !.notes = 1]
AllBoards == {Unsure, Removed, Recreated, Unwritten}

LoopRests == LoopStarts("ended", {Calm})
CallsRest == CallStarts({NoCalls})
BoardRests == BoardStarts("off", {NoBoard})

Init == \/ LoopInit /\ CallsRest /\ BoardRests
        \/ LoopRests /\ CallInit /\ BoardRests
        \/ LoopRests /\ CallsRest /\ BoardInit
vars == <<loopVars, callVars, boardVars>>

OfLoop(A) == A /\ UNCHANGED <<callVars, boardVars>>
OfCalls(A) == A /\ UNCHANGED <<loopVars, boardVars>>
OfBoard(A) == A /\ UNCHANGED <<loopVars, callVars>>

Next == OfLoop(LoopNext) \/ OfCalls(CallNext) \/ OfBoard(BoardNext)

Spec == Init /\ [][Next]_vars /\ LoopFairness /\ CallFairness /\ BoardFairness
=============================================================================
