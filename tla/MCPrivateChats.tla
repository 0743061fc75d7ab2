--------------------------- MODULE MCPrivateChats ---------------------------
(* Worlds small enough to be explored together, one for each thing that    *)
(* may go wrong.                                                           *)
EXTENDS PrivateChats

CONSTANTS g1, g2

World0 == [kinds |-> {}, views |-> {"entry"}, options |-> {}, shared |-> {g1}, writers |-> {g1}, readers |-> {}, screens |-> {},
           messages |-> 2, questions |-> 1, turns |-> 0, denials |-> 0, failures |-> 0, restarts |-> 0, switches |-> 0]
Pressed == [World0 EXCEPT !.kinds = {"choice", "pencil", "plain"}, !.options = {"desk"}, !.views = {"menu", "entry"}, !.questions = 2]
Refused == [World0 EXCEPT !.kinds = {"plain", "pencil"}, !.options = {"owner"}, !.denials = 1]
Withdrawn == [World0 EXCEPT !.kinds = {"file", "git"}, !.questions = 0, !.denials = 1, !.failures = 1]
Mirrored == [World0 EXCEPT !.shared = {g1, g2}, !.kinds = {"pause", "resume"}, !.options = {"desk"}]
Replied == [World0 EXCEPT !.shared = {g1, g2}, !.kinds = {"screen", "pause"}, !.options = {"replies", "repeats"}, !.screens = {g1}, !.turns = 1, !.questions = 0]
Restarted == [World0 EXCEPT !.kinds = {"plain", "choice"}, !.views = {"menu"}, !.restarts = 1]
Filed == [World0 EXCEPT !.kinds = {"file", "part"}, !.questions = 0]
Closed == [World0 EXCEPT !.shared = {g1, g2}, !.writers = {g1, g2}, !.kinds = {"close", "confirm"}, !.readers = {g2}, !.messages = 3, !.questions = 0]
Overlaid == [World0 EXCEPT !.kinds = {"usage", "keys"}, !.messages = 1, !.denials = 2, !.questions = 0, !.turns = 1]
Viewed == [World0 EXCEPT !.shared = {g1, g2}, !.kinds = {"pause"}, !.messages = 1, !.options = {"dashboard"}, !.questions = 0, !.denials = 1]
Owned == [World0 EXCEPT !.shared = {g1, g2}, !.writers = {g1, g2}, !.kinds = {"plain", "pencil"}]
Failing == [World0 EXCEPT !.kinds = {"plain", "pencil"}, !.options = {"exits"}, !.failures = 1]
Raced == [World0 EXCEPT !.kinds = {"choice", "plain"}, !.options = {"races"}, !.denials = 1]
Unsynced == [World0 EXCEPT !.shared = {g1, g2}, !.messages = 0, !.options = {"desk"}, !.questions = 2, !.switches = 2]
Unviewed == [World0 EXCEPT !.messages = 0, !.options = {"dashboard", "desk"}, !.denials = 1, !.switches = 2]

AllWorlds == {Unsynced, Unviewed, Pressed, Refused, Withdrawn, Mirrored, Replied, Restarted, Filed, Closed, Overlaid, Viewed, Owned, Failing, Raced}
=============================================================================
