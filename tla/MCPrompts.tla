------------------------------ MODULE MCPrompts ------------------------------
(* Worlds small enough to be explored together, one for each way a message *)
(* takes to the agent.                                                     *)
EXTENDS Prompts

World == [agent |-> "claude", kinds |-> {"plain"}, dialogs |-> {"menu", "entry"}, options |-> {},
          messages |-> 2, questions |-> 2, presses |-> 1, failures |-> 0]
Asked == [World EXCEPT !.kinds = {"plain", "short"}, !.options = {"desk", "exits"}, !.failures = 1]
Filed == [World EXCEPT !.kinds = {"plain", "file", "part"}, !.options = {"desk"}, !.questions = 1]
Overlaid == [World EXCEPT !.kinds = {"usage", "plain"}, !.options = {"desk"}, !.questions = 0, !.failures = 1]
Picked == [World EXCEPT !.agent = "codex", !.kinds = {"usage", "plain", "file", "clear"}, !.questions = 0, !.messages = 3]
Driven == [World EXCEPT !.agent = "codex", !.kinds = {"usage", "plain", "keys", "models"}, !.questions = 0, !.messages = 3]
Moved == [World EXCEPT !.kinds = {"usage", "part", "plain"}, !.options = {"rekeys"}, !.messages = 3, !.questions = 1, !.dialogs = {"entry"}]
Dropped == [World EXCEPT !.kinds = {"plain", "keys"}, !.options = {"undriven"}, !.messages = 3, !.questions = 1]
Closed == [World EXCEPT !.kinds = {"close", "new"}, !.options = {"exits"}, !.messages = 3, !.questions = 0, !.presses = 2, !.failures = 1]
Chosen == [World EXCEPT !.agent = "codex", !.kinds = {"usage", "plain"}, !.options = {"races", "desk"}, !.questions = 0]
Raced == [World EXCEPT !.options = {"races", "pencil", "desk"}, !.dialogs = {"entry", "menu"}]

AllWorlds == {Asked, Filed, Overlaid, Picked, Driven, Moved, Dropped, Closed, Chosen, Raced}
=============================================================================
