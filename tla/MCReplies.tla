------------------------------ MODULE MCReplies ------------------------------
(* Worlds small enough to be explored together: questions that ring, are   *)
(* held and are caught up; answers read from a transcript; an agent that   *)
(* changes its key; ticked boxes.                                          *)
EXTENDS Replies

World == [modes |-> {"ring"}, options |-> {}, questions |-> 1, turns |-> 1, presses |-> 1,
          prompts |-> 0, repeats |-> 0, changes |-> 0, failures |-> 0]
Asked == [World EXCEPT !.modes = {"ring", "held"}, !.options = {"reannounce"}, !.questions = 2, !.presses = 0, !.changes = 1]
Paged == [World EXCEPT !.modes = {"ring", "silent"}, !.options = {"reannounce", "delay", "pager"},
                       !.repeats = 1, !.changes = 1, !.failures = 1]
Answered == [World EXCEPT !.questions = 0, !.options = {"formatted"}, !.modes = {"ring", "stopped"}, !.turns = 2, !.prompts = 1, !.changes = 1]
Moved == [World EXCEPT !.options = {"rekeys", "delay"}, !.repeats = 1]
Ticked == [World EXCEPT !.questions = 2, !.presses = 2]

Stopped == [World EXCEPT !.modes = {"ring", "held", "stopped"}, !.presses = 0, !.changes = 3]
Hushed == [World EXCEPT !.modes = {"ring", "held", "silent"}, !.presses = 0, !.changes = 2]
Gapped == [World EXCEPT !.options = {"gaps"}, !.questions = 2]

AllWorlds == {Asked, Paged, Answered, Moved, Ticked, Gapped, Stopped, Hushed}
=============================================================================
