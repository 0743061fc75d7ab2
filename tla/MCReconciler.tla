---------------------------- MODULE MCReconciler ----------------------------
(* Small instances of the topic mirror for TLC.                            *)
EXTENDS Reconciler

(* A pane whose session d1 is seen under two terminals, before and after a *)
(* restart of Herdr, the pane with another session and with none; an agent *)
(* without a session in another pane.                                      *)
K1 == [pane |-> "p1", term |-> "t1", digest |-> "d1"]
K2 == [pane |-> "p1", term |-> "t2", digest |-> "d1"]
D2 == [pane |-> "p1", term |-> "t1", digest |-> "d2"]
U1 == [pane |-> "p1", term |-> "t1", digest |-> Unknown]
P2 == [pane |-> "p2", term |-> "t3", digest |-> Unknown]

Running(k, name, status) ==
  [key |-> k, name |-> name, status |-> status, cwd |-> "c", kind |-> "claude"]
Runs(k) == {Running(k, n, s) : n \in Name, s \in LiveStatus}
AtMostOne(agentsOf) == {{}} \cup {{a} : a \in agentsOf}

(* One agent that comes and goes.                                          *)
OneKey == {K1}
OneWorlds == AtMostOne(Runs(K1))

(* Two agents that come and go independently, one of which changes status. *)
TwoKeys == {K1, P2}
TwoWorlds == {S \cup T : S \in AtMostOne(Runs(K1)), T \in AtMostOne({Running(P2, "n", "idle")})}

(* One pane, two sessions, and listings that do not say which.  Herdr      *)
(* shows one name, whatever the operator types.                             *)
SessionKeys == {K1, K2, D2, U1}
SessionWorlds == AtMostOne({Running(k, "n", "idle") : k \in SessionKeys})
=============================================================================
