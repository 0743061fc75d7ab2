---------------------------- MODULE AgentEvents ----------------------------
(***************************************************************************)
(* What a snapshot of Herdr's agents says to the rest of the daemon, from  *)
(* internal/app/registry.go: the difference of two views of the agents, as *)
(* a sequence of events in the order the consumers need.                   *)
(***************************************************************************)
EXTENDS Mapping, Sequences

Event == [kind : {"appeared", "changed", "gone"}, agent : Agent]

(* differs: a title or a revision alone is no event.                       *)
AgentDiffers(a, b) ==
  a.name # b.name \/ a.status # b.status \/ a.kind # b.kind \/ a.cwd # b.cwd

(* Whether next continues prev under another key: the ordering counterpart *)
(* of the mapping's matcher.                                               *)
SameAgentRestart(prev, next) ==
  /\ prev.key # next.key
  /\ prev.key.pane = next.key.pane
  /\ IF prev.key.digest # Unknown /\ next.key.digest # Unknown
       THEN SameSession(prev.key, next.key)
       ELSE /\ next.cwd # Unknown
            /\ prev.cwd \in {Unknown, next.cwd}
            /\ prev.kind = next.kind
            /\ prev.name = next.name

GoneFrom(old, new) == {a \in old : a.key \notin KeysOf(new)}
NewIn(old, new) == {a \in new : a.key \notin KeysOf(old)}
ChangedIn(old, new) ==
  {a \in new : \E b \in old : b.key = a.key /\ AgentDiffers(a, b)}

(* A replacement with one possible predecessor, that has no other          *)
(* successor, appears before its predecessor goes.                         *)
Replacements(old, new) ==
  {a \in NewIn(old, new) :
     \E b \in GoneFrom(old, new) :
       /\ {c \in GoneFrom(old, new) : SameAgentRestart(c, a)} = {b}
       /\ {c \in NewIn(old, new) : SameAgentRestart(b, c)} = {a}}

(* One order of a finite set, whichever the keys' spelling gives.          *)
InSomeOrder(S) ==
  CHOOSE s \in [1..Cardinality(S) -> S] : \A i, j \in 1..Cardinality(S) : s[i] = s[j] => i = j

EventsOf(kind, S) ==
  LET ordered == InSomeOrder(S)
  IN [i \in 1..Cardinality(S) |-> [kind |-> kind, agent |-> ordered[i]]]

(* orderSnapshotEvents of what applySnapshot finds.                        *)
SnapshotEvents(old, new) ==
  LET first == Replacements(old, new)
  IN EventsOf("appeared", first) \o EventsOf("gone", GoneFrom(old, new))
       \o EventsOf("appeared", NewIn(old, new) \ first) \o EventsOf("changed", ChangedIn(old, new))
=============================================================================
