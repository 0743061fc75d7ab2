--------------------------- MODULE MCReassociation --------------------------
(* Two panes.  In the first, entries of up to three agents that were there *)
(* one after the other, sharing two topics.                                *)
EXTENDS Reassociation

U1 == [pane |-> "p1", term |-> "t1", digest |-> Unknown]
K1 == [pane |-> "p1", term |-> "t1", digest |-> "d1"]
K2 == [pane |-> "p1", term |-> "t2", digest |-> "d1"]
D2 == [pane |-> "p1", term |-> "t2", digest |-> "d2"]
P1 == [pane |-> "p2", term |-> "t3", digest |-> Unknown]
P2 == [pane |-> "p2", term |-> "t4", digest |-> "d1"]
MCKey == {U1, K1, K2, D2, P1, P2}

(* An entry of version 1, without a session or a directory, or of          *)
(* version 2, changed on some day.                                         *)
Old(t, status) ==
  [thread |-> t, name |-> "n", status |-> status, closed |-> status = Exited, muted |-> FALSE,
   cwd |-> Unknown, kind |-> Unknown, legacy |-> TRUE, at |-> 0]
Of(t, status, day) ==
  [Old(t, status) EXCEPT !.cwd = "c", !.kind = "claude", !.legacy = FALSE, !.at = day]
Statuses == {"idle", Exited}

MCTables ==
  {[k \in MCKey |-> CASE k = U1 -> u [] k = K1 -> v [] k = K2 -> w [] k = P1 -> Of(3, "idle", 1)
                      [] OTHER -> NoEntry] :
     u \in {NoEntry} \cup {Old(1, s) : s \in Statuses} \cup {Of(1, s, 1) : s \in Statuses},
     v \in {NoEntry} \cup {Of(t, s, 1) : t \in {1, 2}, s \in Statuses},
     w \in {NoEntry} \cup {Of(2, s, i) : s \in Statuses, i \in {0, 2}}}

Running(k, cwd) == [key |-> k, name |-> "n", status |-> "idle", cwd |-> cwd, kind |-> "claude"]
InPane(p) == {{}} \cup {{Running(k, c)} : k \in {l \in MCKey : l.pane = p}, c \in {Unknown, "c"}}
MCLives == {L \cup M : L \in InPane("p1"), M \in {{}, {Running(P2, "c")}}}
=============================================================================
