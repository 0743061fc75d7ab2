----------------------------- MODULE MCAgentFeed ----------------------------
(* A pane whose agent goes on under another terminal, or is another one,   *)
(* and an agent in a second pane.                                          *)
EXTENDS AgentFeed

A(p, t, d) == [key |-> [pane |-> p, term |-> t, digest |-> d], cwd |-> "c", kind |-> "claude"]
A1 == A("p1", "t1", "d1")
A2 == A("p1", "t2", "d1")
A3 == A("p1", "t1", "d2")
B1 == A("p2", "t3", "d3")
AllAgents == {A1, A2, A3, B1}
Keys == {a.key : a \in AllAgents}

Quiet == [acts |-> 0, renames |-> 0, drops |-> 0, failures |-> 0, replays |-> 0, slow |-> FALSE,
          agents |-> {A1, A2, A3}, first |-> {A1}]
Calm == [Quiet EXCEPT !.acts = 2]
Both == [Quiet EXCEPT !.acts = 2, !.agents = {A1, B1}, !.slow = TRUE]
Dropped == [Quiet EXCEPT !.acts = 1, !.drops = 1, !.failures = 1]
Renamed == [Quiet EXCEPT !.renames = 1, !.acts = 1]
Replayed == [Quiet EXCEPT !.acts = 1, !.replays = 1]
AllWorlds == {Calm, Both, Dropped, Renamed, Replayed}
=============================================================================
