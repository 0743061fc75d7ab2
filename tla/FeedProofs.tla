----------------------------- MODULE FeedProofs -----------------------------
(***************************************************************************)
(* What the daemon is told of Herdr's agents, for any agents, worlds and   *)
(* buffers.                                                                *)
(*                                                                         *)
(* The sequences of events on their way are judged by what they do to a    *)
(* set of agents (Fold), the lines of notices by the last status they hold *)
(* for a pane (Says, Silent) and by whom they call gone (LateIn).  A       *)
(* listing is safe to apply because nobody who lists takes notices         *)
(* meanwhile (CallOK), and the lines of two connections are in order       *)
(* because a second one is opened only when the first is drained (LineOK). *)
(***************************************************************************)
EXTENDS AgentFeed, Reassociation, MappingProofs

---------------------------------------------------------------------------
(* The inductive invariant.                                                *)

OnePerPane(S) == \A a, b \in S : a.key.pane = b.key.pane => a = b
View(S) == IsFiniteSet(S) /\ OnePerPane(S)

Runner == [key: Key, status: LiveStatus, cwd: Cwd \cup {Unknown}, kind: Kind]
Note ==
  {n \in [kind: {"status", "updated", "detected", "released", "closed", "renamed", "reset"},
          pane: Panes \cup {Unknown}, key: Key \cup {NoKey}, status: LiveStatus \cup {Unknown}, gone: SUBSET Key] :
     /\ n.kind = "status" => n.status \in LiveStatus /\ n.pane \in Panes
     /\ n.kind = "updated" => /\ n.key \in Key /\ n.status \in LiveStatus
                              /\ n.key.pane = n.pane /\ n.key \notin n.gone
     /\ n.gone # {} => n.kind \in {"released", "closed", "updated"}
     /\ \A k \in n.gone : k.pane = n.pane}
Connection == [up: BOOLEAN, watch: SUBSET Panes, line: Seq(Note)]
Call == [at: {"none", "list", "labels", "apply", "watch"}, agents: SUBSET (Runner \cup Agent)]
Listed(l) ==
  /\ l.at \in {"none", "list", "labels", "apply", "watch"} /\ View(l.agents)
  /\ l.at \in {"none", "list"} => l.agents = {}
  /\ l.at = "labels" => l.agents \subseteq Runner
  /\ l.at \in {"apply", "watch"} => l.agents \subseteq Agent

(* Every variable keeps its type; Herdr and whoever has read of it knows   *)
(* one agent in a pane.                                                    *)
HerdTyped == world \in World /\ herdr \subseteq Runner /\ View(herdr) /\ label \in [Panes -> Name]
WireTyped ==
  /\ conn \in Connection /\ old \in Connection /\ channel \in Seq(Note)
  /\ stream \in [at: {"dial", "serve", "pause", "drain"}, panes: SUBSET Panes, changed: BOOLEAN, retry: BOOLEAN]
CallTyped ==
  /\ call \in [Callers -> Call]
  /\ \A c \in Callers : Listed(call[c])
TellTyped ==
  /\ reg \in [agents: SUBSET Agent, retired: SUBSET Key] /\ View(reg.agents)
  /\ loop \in [at: {"idle", "snapshot"}, coalesce: BOOLEAN, events: Seq(Event)]
  /\ feed \in Seq(Event)
  /\ daemon \in [at: {"start", "dispatch", "idle", "replay"}, events: Seq(Event), seen: SUBSET Agent]
PastTyped ==
  past \in [ran: SUBSET Key, told: SUBSET Key, pushed: SUBSET Panes,
           emitted: [Panes -> LiveStatus \cup {Unknown}], replayed: BOOLEAN]
TypeOK == HerdTyped /\ WireTyped /\ CallTyped /\ TellTyped /\ PastTyped

(* Whoever lists does nothing else, and sends what it finds when it is     *)
(* done; the daemon's first snapshot comes before everything.              *)
Early == {"list", "labels", "apply"}
CallOK ==
  /\ call["registry"].at # "none" => loop.at = "snapshot"
  /\ loop.at = "snapshot" /\ call["registry"].at \in Early => loop.events = <<>>
  /\ call["daemon"].at # "none" => daemon.at \in {"start", "replay"}
  /\ daemon.at = "idle" => daemon.events = <<>>
  /\ daemon.at = "replay" => past.replayed
  /\ daemon.at = "start" => /\ call["registry"].at = "none" /\ loop.events = <<>> /\ feed = <<>> /\ daemon.seen = {}
                            /\ call["daemon"].at \in Early => reg.agents = {} /\ daemon.events = <<>>

(* What the daemon was told, and then the rest of its own snapshot, what   *)
(* is in the channel, and what the registry has yet to send.               *)
ToldOK ==
  ~past.replayed => Fold(Fold(Fold(daemon.seen, daemon.events), feed), loop.events) = reg.agents

(* A key that is gone has run and runs no more; whatever is on its way     *)
(* says so only of such keys, and no list that is to be applied is older   *)
(* than what the registry was told.                                        *)
Dead == past.ran \ KeysOf(herdr)
LateIn(q, K) == \A i \in 1..Len(q) : q[i].gone \subseteq K
GoneOK ==
  /\ KeysOf(herdr) \subseteq past.ran /\ past.told \subseteq Dead
  /\ LateIn(conn.line, Dead) /\ LateIn(old.line, Dead) /\ LateIn(channel, Dead)
  /\ ~past.replayed =>
       /\ \A c \in Callers : call[c].at \in {"labels", "apply"} => KeysOf(call[c].agents) \cap past.told = {}
       /\ KeysOf(Visible) \cap past.told = {}

(* The last status of a pane that was pushed is in the line of the new     *)
(* connection, or else of the old one, or else it was emitted.             *)
OfPane(n, p) == n.kind = "status" /\ n.pane = p
Silent(q, p) == \A i \in 1..Len(q) : ~OfPane(q[i], p)
Says(q, p, s) ==
  \E i \in 1..Len(q) : /\ OfPane(q[i], p) /\ q[i].status = s
                       /\ \A j \in 1..Len(q) : j > i => ~OfPane(q[j], p)
Brings(new, prev, last, p, s) ==
  Says(new, p, s) \/ (Silent(new, p) /\ (Says(prev, p, s) \/ (Silent(prev, p) /\ last = s)))
LineOK ==
  /\ old.up => conn.up
  /\ stream.at \in {"dial", "pause"} => conn = Nowhere
  /\ stream.at # "drain" => old = Nowhere
  /\ \A p \in Panes \ conn.watch : Silent(conn.line, p)
PushedOK ==
  ~world.slow => \A a \in herdr :
    a.key.pane \in past.pushed => Brings(conn.line, old.line, past.emitted[a.key.pane], a.key.pane, a.status)

IInv == TypeOK /\ CallOK /\ ToldOK /\ GoneOK /\ LineOK /\ PushedOK

---------------------------------------------------------------------------
(* What events do to a set of agents.                                      *)

(* Of an agent's key nothing is said; the last word is that it is there.   *)
Nothing(q, k) == \A i \in 1..Len(q) : q[i].agent.key # k
Gives(q, a) ==
  \E i \in 1..Len(q) : /\ q[i].agent = a /\ q[i].kind # "gone"
                       /\ \A j \in 1..Len(q) : j > i => q[j].agent.key # a.key

LEMMA InFold ==
  ASSUME NEW S, NEW q \in Seq(Event), NEW a
  PROVE  a \in Fold(S, q) <=> (a \in S /\ Nothing(q, a.key)) \/ Gives(q, a)
  <1>1. Len(q) \in Nat
    BY LenProperties
  <1>2. \A i \in 1..Len(q) : (i + 1)..Len(q) = {j \in 1..Len(q) : j > i}
    BY <1>1
  <1> QED
    BY <1>2, Zenon DEF Fold, Last, Nothing, Gives

LEMMA FoldOfNone ==
  ASSUME NEW S
  PROVE  Fold(S, <<>>) = S
  BY DEF Fold, Last

LEMMA Joined ==
  ASSUME NEW q \in Seq(Event), NEW r \in Seq(Event)
  PROVE  /\ q \o r \in Seq(Event) /\ Len(q) \in Nat /\ Len(r) \in Nat
         /\ Len(q \o r) = Len(q) + Len(r)
         /\ \A i \in 1..Len(q) : i \in 1..Len(q \o r) /\ (q \o r)[i] = q[i]
         /\ \A i \in 1..Len(r) : Len(q) + i \in 1..Len(q \o r) /\ (q \o r)[Len(q) + i] = r[i]
         /\ \A i \in 1..Len(q \o r) : i \notin 1..Len(q) =>
              i - Len(q) \in 1..Len(r) /\ (q \o r)[i] = r[i - Len(q)]
  BY LenProperties, ConcatProperties

LEMMA NothingJoined ==
  ASSUME NEW q \in Seq(Event), NEW r \in Seq(Event), NEW k
  PROVE  Nothing(q \o r, k) <=> Nothing(q, k) /\ Nothing(r, k)
  <1>1. ASSUME Nothing(q \o r, k) PROVE Nothing(q, k) /\ Nothing(r, k)
    <2>1. ASSUME NEW i \in 1..Len(q) PROVE q[i].agent.key # k
      BY <1>1, Joined DEF Nothing
    <2>2. ASSUME NEW i \in 1..Len(r) PROVE r[i].agent.key # k
      BY <1>1, Joined DEF Nothing
    <2> QED
      BY <2>1, <2>2 DEF Nothing
  <1>2. ASSUME Nothing(q, k), Nothing(r, k) PROVE Nothing(q \o r, k)
    <2>1. ASSUME NEW i \in 1..Len(q \o r) PROVE (q \o r)[i].agent.key # k
      <3>1. CASE i \in 1..Len(q)
        BY <1>2, <3>1, Joined DEF Nothing
      <3>2. CASE i \notin 1..Len(q)
        <4>1. i - Len(q) \in 1..Len(r) /\ (q \o r)[i] = r[i - Len(q)]
          BY <3>2, Joined
        <4> QED
          BY <1>2, <4>1 DEF Nothing
      <3> QED
        BY <3>1, <3>2
    <2> QED
      BY <2>1 DEF Nothing
  <1> QED
    BY <1>1, <1>2

LEMMA GivesJoined ==
  ASSUME NEW q \in Seq(Event), NEW r \in Seq(Event), NEW a
  PROVE  Gives(q \o r, a) <=> (Gives(q, a) /\ Nothing(r, a.key)) \/ Gives(r, a)
  <1> DEFINE t == q \o r
             m == Len(q)
  <1>1. ASSUME Gives(q, a), Nothing(r, a.key) PROVE Gives(t, a)
    <2>1. PICK i \in 1..Len(q) : /\ q[i].agent = a /\ q[i].kind # "gone"
                                 /\ \A j \in 1..Len(q) : j > i => q[j].agent.key # a.key
      BY <1>1 DEF Gives
    <2>2. ASSUME NEW j \in 1..Len(t), j > i PROVE t[j].agent.key # a.key
      <3>1. CASE j \in 1..Len(q)
        BY <2>1, <2>2, <3>1, Joined
      <3>2. CASE j \notin 1..Len(q)
        <4>1. j - m \in 1..Len(r) /\ t[j] = r[j - m]
          BY <3>2, Joined
        <4> QED
          BY <1>1, <4>1 DEF Nothing
      <3> QED
        BY <3>1, <3>2
    <2>3. i \in 1..Len(t) /\ t[i] = q[i]
      BY Joined
    <2> QED
      BY <2>1, <2>2, <2>3 DEF Gives
  <1>2. ASSUME Gives(r, a) PROVE Gives(t, a)
    <2>1. PICK i \in 1..Len(r) : /\ r[i].agent = a /\ r[i].kind # "gone"
                                 /\ \A j \in 1..Len(r) : j > i => r[j].agent.key # a.key
      BY <1>2 DEF Gives
    <2>2. m + i \in 1..Len(t) /\ t[m + i] = r[i] /\ m \in Nat
      BY Joined
    <2>3. ASSUME NEW j \in 1..Len(t), j > m + i PROVE t[j].agent.key # a.key
      <3>1. j \notin 1..Len(q) /\ j - m > i
        BY <2>2, <2>3, Joined
      <3>2. j - m \in 1..Len(r) /\ t[j] = r[j - m]
        BY <3>1, Joined
      <3> QED
        BY <2>1, <3>1, <3>2
    <2> QED
      BY <2>1, <2>2, <2>3 DEF Gives
  <1>3. ASSUME Gives(t, a) PROVE (Gives(q, a) /\ Nothing(r, a.key)) \/ Gives(r, a)
    <2>1. PICK i \in 1..Len(t) : /\ t[i].agent = a /\ t[i].kind # "gone"
                                 /\ \A j \in 1..Len(t) : j > i => t[j].agent.key # a.key
      BY <1>3 DEF Gives
    <2>2. CASE i \in 1..Len(q)
      <3>1. ASSUME NEW j \in 1..Len(q), j > i PROVE q[j].agent.key # a.key
        BY <2>1, <3>1, Joined
      <3>2. ASSUME NEW j \in 1..Len(r) PROVE r[j].agent.key # a.key
        <4>1. m + j \in 1..Len(t) /\ t[m + j] = r[j] /\ m + j > i
          BY <2>2, Joined
        <4> QED
          BY <2>1, <4>1
      <3>3. q[i] = t[i]
        BY <2>2, Joined
      <3> QED
        BY <2>1, <2>2, <3>1, <3>2, <3>3 DEF Gives, Nothing
    <2>3. CASE i \notin 1..Len(q)
      <3>1. i - m \in 1..Len(r) /\ t[i] = r[i - m]
        BY <2>3, Joined
      <3>2. ASSUME NEW j \in 1..Len(r), j > i - m PROVE r[j].agent.key # a.key
        <4>1. m + j \in 1..Len(t) /\ t[m + j] = r[j] /\ m + j > i
          BY <3>2, Joined
        <4> QED
          BY <2>1, <4>1
      <3> QED
        BY <2>1, <3>1, <3>2 DEF Gives
    <2> QED
      BY <2>2, <2>3
  <1> QED
    BY <1>1, <1>2, <1>3

LEMMA FoldConcat ==
  ASSUME NEW S, NEW q \in Seq(Event), NEW r \in Seq(Event)
  PROVE  Fold(S, q \o r) = Fold(Fold(S, q), r)
  <1> SUFFICES ASSUME NEW a PROVE a \in Fold(S, q \o r) <=> a \in Fold(Fold(S, q), r)
    OBVIOUS
  <1>1. /\ a \in Fold(S, q) <=> (a \in S /\ Nothing(q, a.key)) \/ Gives(q, a)
        /\ a \in Fold(Fold(S, q), r) <=> (a \in Fold(S, q) /\ Nothing(r, a.key)) \/ Gives(r, a)
    BY InFold
  <1>2. q \o r \in Seq(Event)
    BY Joined
  <1>3. a \in Fold(S, q \o r) <=> (a \in S /\ Nothing(q \o r, a.key)) \/ Gives(q \o r, a)
    BY <1>2, InFold
  <1>4. /\ Nothing(q \o r, a.key) <=> Nothing(q, a.key) /\ Nothing(r, a.key)
        /\ Gives(q \o r, a) <=> (Gives(q, a) /\ Nothing(r, a.key)) \/ Gives(r, a)
    BY NothingJoined, GivesJoined
  <1> QED
    BY <1>1, <1>3, <1>4, Zenon

LEMMA FoldOne ==
  ASSUME NEW S, NEW e \in Event
  PROVE  Fold(S, <<e>>) = Hear(S, e)
  <1> DEFINE q == <<e>>
  <1>1. q \in Seq(Event) /\ Len(q) = 1 /\ q[1] = e /\ 1..Len(q) = {1}
    OBVIOUS
  <1> HIDE DEF q
  <1> SUFFICES ASSUME NEW a PROVE a \in Fold(S, q) <=> a \in Hear(S, e)
    BY DEF q
  <1>2. a \in Fold(S, q) <=> (a \in S /\ Nothing(q, a.key)) \/ Gives(q, a)
    BY <1>1, InFold
  <1>3. /\ Nothing(q, a.key) <=> e.agent.key # a.key
        /\ Gives(q, a) <=> e.agent = a /\ e.kind # "gone"
    BY <1>1 DEF Nothing, Gives
  <1> QED
    BY <1>2, <1>3 DEF Hear

LEMMA FoldHead ==
  ASSUME NEW S, NEW q \in Seq(Event), q # <<>>
  PROVE  Fold(Hear(S, Head(q)), Tail(q)) = Fold(S, q)
  <1>1. Head(q) \in Event /\ Tail(q) \in Seq(Event) /\ <<Head(q)>> \in Seq(Event)
    BY HeadTailProperties
  <1>2. q = <<Head(q)>> \o Tail(q)
    OBVIOUS
  <1>3. Fold(S, <<Head(q)>> \o Tail(q)) = Fold(Fold(S, <<Head(q)>>), Tail(q))
    BY <1>1, FoldConcat
  <1> QED
    BY <1>1, <1>2, <1>3, FoldOne

(* An event handed on from one channel to the next is still the next one.  *)
LEMMA FoldPassed ==
  ASSUME NEW S, NEW q \in Seq(Event), NEW r \in Seq(Event), r # <<>>
  PROVE  Fold(Fold(S, Append(q, Head(r))), Tail(r)) = Fold(Fold(S, q), r)
  <1>1. Head(r) \in Event /\ <<Head(r)>> \in Seq(Event)
    BY HeadTailProperties
  <1>2. Append(q, Head(r)) = q \o <<Head(r)>>
    BY <1>1
  <1>3. Fold(S, q \o <<Head(r)>>) = Fold(Fold(S, q), <<Head(r)>>)
    BY <1>1, FoldConcat
  <1>4. Fold(Fold(S, q), <<Head(r)>>) = Hear(Fold(S, q), Head(r))
    BY <1>1, FoldOne
  <1>5. Fold(Hear(Fold(S, q), Head(r)), Tail(r)) = Fold(Fold(S, q), r)
    BY FoldHead
  <1> QED
    BY <1>2, <1>3, <1>4, <1>5

(* The events of a set of agents, whatever their order.                    *)
LEMMA EventsAre ==
  ASSUME NEW S \in SUBSET Agent, IsFiniteSet(S), NEW kind
  PROVE  /\ Len(EventsOf(kind, S)) = Cardinality(S) /\ Cardinality(S) \in Nat
         /\ \A i \in 1..Cardinality(S) : /\ EventsOf(kind, S)[i].kind = kind
                                         /\ EventsOf(kind, S)[i].agent \in S
         /\ \A a \in S : \E i \in 1..Cardinality(S) : EventsOf(kind, S)[i].agent = a
         /\ \A i, j \in 1..Cardinality(S) :
              EventsOf(kind, S)[i].agent = EventsOf(kind, S)[j].agent => i = j
  <1>1. Cardinality(S) \in Nat /\ InSomeOrder(S) \in Bijection(1..Cardinality(S), S)
    BY OrderIsBijection
  <1> DEFINE n == Cardinality(S)
             o == InSomeOrder(S)
  <1>2. /\ o \in [1..n -> S] /\ \A i, j \in 1..n : o[i] = o[j] => i = j
        /\ \A a \in S : \E i \in 1..n : o[i] = a
    BY <1>1 DEF Bijection, Injection, Surjection, IsInjective
  <1> HIDE DEF n, o
  <1>3. EventsOf(kind, S) = [i \in 1..n |-> [kind |-> kind, agent |-> o[i]]]
    BY DEF EventsOf, n, o
  <1>4. Len(EventsOf(kind, S)) = n
    BY <1>1, <1>3 DEF n
  <1>5. \A i \in 1..n : EventsOf(kind, S)[i].kind = kind /\ EventsOf(kind, S)[i].agent = o[i]
    BY <1>3
  <1> QED
    BY <1>1, <1>2, <1>4, <1>5 DEF n

LEMMA FoldEvents ==
  ASSUME NEW A, NEW S \in SUBSET Agent, IsFiniteSet(S), Distinct(S),
         NEW kind \in {"appeared", "changed", "gone"}
  PROVE  Fold(A, EventsOf(kind, S)) =
           {a \in A : a.key \notin KeysOf(S)} \cup (IF kind = "gone" THEN {} ELSE S)
  <1> DEFINE q == EventsOf(kind, S)
             n == Cardinality(S)
  <1>1. q \in Seq(Event) /\ Len(q) = n
    BY EventsTyped, EventsAre
  <1>2. /\ \A i \in 1..n : q[i].kind = kind /\ q[i].agent \in S
        /\ \A a \in S : \E i \in 1..n : q[i].agent = a
        /\ \A i, j \in 1..n : q[i].agent = q[j].agent => i = j
    BY EventsAre
  <1>3. n \in Nat
    BY EventsAre
  <1> HIDE DEF q, n
  <1> SUFFICES ASSUME NEW a
               PROVE  a \in Fold(A, q) <=> (a \in A /\ a.key \notin KeysOf(S)) \/ (kind # "gone" /\ a \in S)
    BY DEF q
  <1>4. a \in Fold(A, q) <=> (a \in A /\ Nothing(q, a.key)) \/ Gives(q, a)
    BY <1>1, InFold
  <1>5. Nothing(q, a.key) <=> a.key \notin KeysOf(S)
    BY <1>1, <1>2 DEF Nothing, KeysOf
  <1>6. ASSUME Gives(q, a) PROVE kind # "gone" /\ a \in S
    BY <1>1, <1>2, <1>6 DEF Gives
  <1>7. ASSUME kind # "gone", a \in S PROVE Gives(q, a)
    <2>1. PICK i \in 1..n : q[i].agent = a
      BY <1>2, <1>7
    <2>2. ASSUME NEW j \in 1..n, j > i PROVE q[j].agent.key # a.key
      <3>1. i # j
        BY <2>2, <1>3
      <3>2. q[j].agent # a /\ q[j].agent \in S
        BY <1>2, <2>1, <3>1
      <3> QED
        BY <1>7, <3>2 DEF Distinct
    <2> QED
      BY <1>1, <1>2, <1>7, <2>1, <2>2 DEF Gives
  <1> QED
    BY <1>4, <1>5, <1>6, <1>7

LEMMA SameAgent ==
  ASSUME NEW a \in Agent, NEW b \in Agent, a.key = b.key, ~AgentDiffers(a, b)
  PROVE  a = b
  BY DEF Agent, AgentDiffers

(* The events of a snapshot lead from the agents before to those after.    *)
LEMMA FoldSnapshot ==
  ASSUME NEW V \in SUBSET Agent, NEW W \in SUBSET Agent, IsFiniteSet(V), IsFiniteSet(W),
         Distinct(V), Distinct(W)
  PROVE  Fold(V, SnapshotEvents(V, W)) = W
  <1> DEFINE first == Replacements(V, W)
             gone == GoneFrom(V, W)
             new == NewIn(V, W)
             changed == ChangedIn(V, W)
  <1>1. first \subseteq new /\ new \subseteq W /\ gone \subseteq V /\ changed \subseteq W
    BY DEF Replacements, GoneFrom, NewIn, ChangedIn
  <1>2. \A S \in (SUBSET V) \cup (SUBSET W) : S \in SUBSET Agent /\ IsFiniteSet(S) /\ Distinct(S)
    BY FS_Subset DEF Distinct
  <1>3. /\ first \in SUBSET W /\ gone \in SUBSET V /\ new \ first \in SUBSET W /\ changed \in SUBSET W
    BY <1>1
  <1> HIDE DEF first, gone, new, changed
  <1>4. ASSUME NEW A, NEW S \in (SUBSET V) \cup (SUBSET W), NEW kind \in {"appeared", "changed", "gone"}
        PROVE  /\ EventsOf(kind, S) \in Seq(Event)
               /\ Fold(A, EventsOf(kind, S)) =
                    {a \in A : a.key \notin KeysOf(S)} \cup (IF kind = "gone" THEN {} ELSE S)
    <2>1. S \in SUBSET Agent /\ IsFiniteSet(S) /\ Distinct(S)
      BY <1>2
    <2>2. EventsOf(kind, S) \in Seq(Event)
      BY <2>1, EventsTyped
    <2>3. Fold(A, EventsOf(kind, S)) =
            {a \in A : a.key \notin KeysOf(S)} \cup (IF kind = "gone" THEN {} ELSE S)
      BY <2>1, FoldEvents, ZenonT(60)
    <2> QED
      BY <2>2, <2>3
  <1> DEFINE A1 == {a \in V : a.key \notin KeysOf(first)} \cup first
             A2 == {a \in A1 : a.key \notin KeysOf(gone)}
             A3 == {a \in A2 : a.key \notin KeysOf(new \ first)} \cup (new \ first)
             A4 == {a \in A3 : a.key \notin KeysOf(changed)} \cup changed
  <1>5. /\ EventsOf("appeared", first) \in Seq(Event) /\ EventsOf("gone", gone) \in Seq(Event)
        /\ EventsOf("appeared", new \ first) \in Seq(Event) /\ EventsOf("changed", changed) \in Seq(Event)
    BY <1>3, <1>4
  <1>6. Fold(V, EventsOf("appeared", first)) = A1
    BY <1>3, <1>4
  <1>7. Fold(A1, EventsOf("gone", gone)) = A2
    BY <1>3, <1>4
  <1>8. Fold(A2, EventsOf("appeared", new \ first)) = A3
    BY <1>3, <1>4
  <1>9. Fold(A3, EventsOf("changed", changed)) = A4
    BY <1>3, <1>4
  <1>10. Fold(V, SnapshotEvents(V, W)) = A4
    <2> DEFINE q1 == EventsOf("appeared", first)
               q2 == EventsOf("gone", gone)
               q3 == EventsOf("appeared", new \ first)
               q4 == EventsOf("changed", changed)
    <2>1. SnapshotEvents(V, W) = ((q1 \o q2) \o q3) \o q4
      BY DEF SnapshotEvents, first, gone, new, changed
    <2> HIDE DEF q1, q2, q3, q4, A1, A2, A3, A4
    <2>2. q1 \in Seq(Event) /\ q2 \in Seq(Event) /\ q3 \in Seq(Event) /\ q4 \in Seq(Event)
      BY <1>5 DEF q1, q2, q3, q4
    <2>3. q1 \o q2 \in Seq(Event) /\ (q1 \o q2) \o q3 \in Seq(Event)
      BY <2>2, ConcatProperties
    <2>4. Fold(V, q1 \o q2) = A2
      BY <2>2, <1>6, <1>7, FoldConcat DEF q1, q2
    <2>5. Fold(V, (q1 \o q2) \o q3) = A3
      BY <2>2, <2>3, <2>4, <1>8, FoldConcat DEF q3
    <2>6. Fold(V, ((q1 \o q2) \o q3) \o q4) = Fold(Fold(V, (q1 \o q2) \o q3), q4)
      BY <2>2, <2>3, FoldConcat
    <2>7. Fold(A3, q4) = A4
      BY <1>9 DEF q4
    <2> QED
      BY <2>1, <2>5, <2>6, <2>7
  <1> SUFFICES ASSUME NEW a PROVE a \in A4 <=> a \in W
    BY <1>10
  <1>11. a \in A3 <=> (a \in V /\ a.key \in KeysOf(W)) \/ a \in new
    <2>1. \A b \in new : b.key \notin KeysOf(V) /\ b \in W
      BY DEF new, NewIn
    <2>2. \A b \in V : b.key \notin KeysOf(new)
      BY <2>1 DEF KeysOf
    <2>3. \A b \in V : b.key \in KeysOf(gone) <=> b.key \notin KeysOf(W)
      BY DEF gone, GoneFrom, KeysOf
    <2>4. \A b \in new : b.key \notin KeysOf(gone)
      BY <2>1 DEF gone, GoneFrom, KeysOf
    <2>5. \A b \in first : b.key \notin KeysOf(new \ first)
      BY <1>1, <1>2, <1>3 DEF KeysOf, Distinct
    <2>6. KeysOf(first) \subseteq KeysOf(new) /\ KeysOf(new \ first) \subseteq KeysOf(new)
      BY <1>1 DEF KeysOf
    <2> QED
      BY <1>1, <2>2, <2>3, <2>4, <2>5, <2>6
  <1> HIDE DEF A3
  <1>12. ASSUME a \in A4 PROVE a \in W
    <2>1. CASE a \in changed
      BY <1>1, <2>1
    <2>2. CASE a \in A3 /\ a.key \notin KeysOf(changed)
      <3>1. CASE a \in new
        BY <1>1, <3>1
      <3>2. CASE a \in V /\ a.key \in KeysOf(W)
        <4>1. PICK b \in W : b.key = a.key
          BY <3>2 DEF KeysOf
        <4>2. ~AgentDiffers(b, a)
          BY <2>2, <3>2, <4>1 DEF changed, ChangedIn, KeysOf
        <4> QED
          BY <3>2, <4>1, <4>2, SameAgent
      <3> QED
        BY <1>11, <2>2, <3>1, <3>2
    <2> QED
      BY <1>12, <2>1, <2>2
  <1>13. ASSUME a \in W PROVE a \in A4
    <2>1. CASE a \in changed
      BY <2>1
    <2>2. CASE a \notin changed
      <3>1. a.key \notin KeysOf(changed)
        BY <1>1, <1>13, <2>2 DEF KeysOf, Distinct
      <3>2. CASE a.key \notin KeysOf(V)
        <4>1. a \in new
          BY <1>13, <3>2 DEF new, NewIn
        <4> QED
          BY <1>11, <3>1, <4>1
      <3>3. CASE a.key \in KeysOf(V)
        <4>1. PICK b \in V : b.key = a.key
          BY <3>3 DEF KeysOf
        <4>2. ~AgentDiffers(a, b)
          BY <1>13, <2>2, <4>1 DEF changed, ChangedIn
        <4>3. a = b
          BY <1>13, <4>1, <4>2, SameAgent
        <4>4. a.key \in KeysOf(W)
          BY <1>13 DEF KeysOf
        <4> QED
          BY <1>11, <3>1, <4>3, <4>4
      <3> QED
        BY <3>2, <3>3
    <2> QED
      BY <2>1, <2>2
  <1> QED
    BY <1>12, <1>13

---------------------------------------------------------------------------
(* One agent in a pane.                                                    *)

LEMMA ViewOfNone == View({})
  BY FS_EmptySet DEF View, OnePerPane

LEMMA ViewWithout ==
  ASSUME NEW S, View(S), NEW T \in SUBSET S
  PROVE  View(T)
  BY FS_Subset DEF View, OnePerPane

LEMMA ViewWith ==
  ASSUME NEW S, View(S), NEW b, \A a \in S : a.key.pane # b.key.pane
  PROVE  View(S \cup {b})
  BY FS_AddElement DEF View, OnePerPane

LEMMA ViewAfter ==
  ASSUME NEW S, View(S), NEW a \in S, NEW b, b.key.pane = a.key.pane
  PROVE  View((S \ {a}) \cup {b})
  <1>1. View(S \ {a})
    BY ViewWithout
  <1>2. \A c \in S \ {a} : c.key.pane # b.key.pane
    BY DEF View, OnePerPane
  <1> QED
    BY <1>1, <1>2, ViewWith

LEMMA ViewIsDistinct ==
  ASSUME NEW S, View(S)
  PROVE  Distinct(S) /\ IsFiniteSet(S)
  BY DEF View, OnePerPane, Distinct

LEMMA NamedAgent ==
  ASSUME NEW a \in Runner, label \in [Panes -> Name]
  PROVE  Named(a) \in Agent /\ Named(a).key = a.key
  BY DEF Named, Runner, Agent, Panes

LEMMA NamedView ==
  ASSUME NEW S \in SUBSET Runner, View(S), label \in [Panes -> Name]
  PROVE  /\ View({Named(a) : a \in S}) /\ {Named(a) : a \in S} \subseteq Agent
         /\ KeysOf({Named(a) : a \in S}) = KeysOf(S)
  <1> DEFINE T == {Named(a) : a \in S}
             f == [a \in S |-> Named(a)]
  <1>1. \A a \in S : Named(a) \in Agent /\ Named(a).key = a.key
    BY NamedAgent
  <1>2. f \in Surjection(S, T)
    BY DEF Surjection
  <1>3. IsFiniteSet(T)
    BY <1>2, FS_Surjection DEF View
  <1>4. OnePerPane(T)
    BY <1>1 DEF View, OnePerPane
  <1> QED
    BY <1>1, <1>3, <1>4 DEF View, KeysOf

---------------------------------------------------------------------------
(* Notices and lines.                                                      *)

LEMMA StructuralNote ==
  ASSUME NEW p \in Panes, NEW kind \in {"detected", "renamed"}
  PROVE  Notice(kind, p, NoKey, Unknown, {}) \in Note
  BY DEF Notice, Note

LEMMA LeftNote ==
  ASSUME NEW k \in Key, NEW kind \in {"released", "closed"}
  PROVE  Notice(kind, k.pane, NoKey, Unknown, {k}) \in Note
  BY DEF Notice, Note, Panes

LEMMA ReplacedNote ==
  ASSUME NEW k \in Key, NEW l \in Key, k # l, l.pane = k.pane, NEW s \in LiveStatus
  PROVE  Notice("updated", k.pane, l, s, {k}) \in Note
  BY DEF Notice, Note, Panes

LEMMA StatusNote ==
  ASSUME NEW p \in Panes, NEW s \in LiveStatus
  PROVE  Notice("status", p, NoKey, s, {}) \in Note
  BY DEF Notice, Note

LEMMA ResetNote == Notice("reset", Unknown, NoKey, Unknown, {}) \in Note
  BY DEF Notice, Note

LEMMA NowhereTyped == Nowhere \in Connection
  BY EmptySeq DEF Nowhere, Connection

LEMMA HeardTyped ==
  ASSUME NEW c \in Connection, NEW n \in Note
  PROVE  /\ Heard(c, n) \in Connection
         /\ Heard(c, n).up = c.up /\ Heard(c, n).watch = c.watch
         /\ Heard(c, n).line = IF Hears(c, n) THEN Append(c.line, n) ELSE c.line
  BY DEF Heard, Connection

LEMMA PushTyped ==
  ASSUME NEW n \in Note, WireTyped, Push(n), stream' = stream, channel' = channel
  PROVE  WireTyped'
  BY HeardTyped DEF Push, WireTyped

LEMMA MineTyped ==
  ASSUME CallTyped, TellTyped, UNCHANGED Mine
  PROVE  CallTyped' /\ TellTyped'
  BY DEF CallTyped, TellTyped, Mine, Listed, Call

---------------------------------------------------------------------------
(* Every action keeps the types.                                           *)

LEMMA ActsTyped ==
  ASSUME world \in World, Acts
  PROVE  world' \in World /\ world'.slow = world.slow
  BY DEF Acts, World

LEMMA FailsTyped ==
  ASSUME world \in World, Fails
  PROVE  world' \in World /\ world'.slow = world.slow
  BY DEF Fails, World

LEMMA WorldAgent ==
  ASSUME world \in World, NEW a \in world.agents, NEW s \in LiveStatus
  PROVE  /\ a.key \in Key /\ a.key.pane \in Panes
         /\ [key |-> a.key, status |-> s, cwd |-> a.cwd, kind |-> a.kind] \in Runner
  BY FeedAssumption DEF World, Runner, Panes

LEMMA AppearTyped ==
  ASSUME TypeOK, NEW a \in Agents, Appear(a)
  PROVE  TypeOK'
  <1>1. world \in World /\ a \in world.agents /\ world' \in World /\ label' = label
    BY ActsTyped DEF Appear, TypeOK, HerdTyped
  <1>2. PICK s \in LiveStatus :
          herdr' = herdr \cup {[key |-> a.key, status |-> s, cwd |-> a.cwd, kind |-> a.kind]}
    BY DEF Appear
  <1> DEFINE b == [key |-> a.key, status |-> s, cwd |-> a.cwd, kind |-> a.kind]
  <1>3. b \in Runner /\ a.key \in Key /\ a.key.pane \in Panes /\ b.key = a.key
    BY <1>1, WorldAgent
  <1>4. \A c \in herdr : c.key.pane # b.key.pane
    BY <1>3 DEF Appear, InPane
  <1>5. HerdTyped'
    BY <1>1, <1>2, <1>3, <1>4, ViewWith DEF TypeOK, HerdTyped
  <1>6. WireTyped'
    BY <1>3, StructuralNote, PushTyped DEF Appear, TypeOK, Mine
  <1>7. PastTyped'
    BY <1>3 DEF Appear, TypeOK, PastTyped
  <1> QED
    BY <1>5, <1>6, <1>7, MineTyped DEF Appear, TypeOK

LEMMA LeaveTyped ==
  ASSUME TypeOK, NEW a \in herdr, NEW kind \in {"released", "closed"}, Leave(a, kind)
  PROVE  TypeOK'
  <1>1. world' \in World /\ label' = label /\ herdr' = herdr \ {a} /\ a.key \in Key
    BY ActsTyped DEF Leave, TypeOK, HerdTyped, Runner
  <1>2. HerdTyped'
    BY <1>1, ViewWithout DEF TypeOK, HerdTyped
  <1>3. WireTyped'
    BY <1>1, LeftNote, PushTyped DEF Leave, TypeOK, Mine
  <1>4. PastTyped'
    BY DEF Leave, TypeOK, PastTyped
  <1> QED
    BY <1>2, <1>3, <1>4, MineTyped DEF Leave, TypeOK

LEMMA ReplaceFacts ==
  ASSUME TypeOK, NEW a \in herdr, NEW b \in Agents, Replace(a, b)
  PROVE  /\ a.key \in Key /\ b.key \in Key /\ a.status \in LiveStatus
         /\ [key |-> b.key, status |-> a.status, cwd |-> b.cwd, kind |-> b.kind] \in Runner
  BY FeedAssumption DEF Replace, TypeOK, HerdTyped, Runner

LEMMA ReplaceTyped ==
  ASSUME TypeOK, GoneOK, NEW a \in herdr, NEW b \in Agents, Replace(a, b)
  PROVE  TypeOK'
  <1> DEFINE c == [key |-> b.key, status |-> a.status, cwd |-> b.cwd, kind |-> b.kind]
  <1>1. /\ world' \in World /\ label' = label /\ herdr' = (herdr \ {a}) \cup {c}
        /\ b.key.pane = a.key.pane /\ b.key \notin past.ran
    BY ActsTyped DEF Replace, TypeOK, HerdTyped
  <1>2. a.key \in Key /\ b.key \in Key /\ a.status \in LiveStatus /\ c \in Runner /\ c.key = b.key
    BY ReplaceFacts
  <1> HIDE DEF c
  <1>3. HerdTyped'
    BY <1>1, <1>2, ViewAfter DEF TypeOK, HerdTyped
  <1>4. a.key # b.key
    BY <1>1 DEF GoneOK, KeysOf
  <1>5. WireTyped'
    BY <1>1, <1>2, <1>4, ReplacedNote, PushTyped DEF Replace, TypeOK, Mine
  <1>6. PastTyped'
    BY <1>2 DEF Replace, TypeOK, PastTyped
  <1> QED
    BY <1>3, <1>5, <1>6, MineTyped DEF Replace, TypeOK

LEMMA ChangeTyped ==
  ASSUME TypeOK, NEW a \in herdr, NEW s \in LiveStatus, Change(a, s)
  PROVE  TypeOK'
  <1> DEFINE b == [a EXCEPT !.status = s]
  <1>1. /\ world' \in World /\ label' = label /\ herdr' = (herdr \ {a}) \cup {b}
        /\ a.key \in Key /\ a.key.pane \in Panes /\ b \in Runner /\ b.key = a.key
    BY ActsTyped DEF Change, TypeOK, HerdTyped, Runner, Panes
  <1> HIDE DEF b
  <1>2. HerdTyped'
    BY <1>1, ViewAfter DEF TypeOK, HerdTyped
  <1>3. WireTyped'
    BY <1>1, StatusNote, PushTyped DEF Change, TypeOK, Mine
  <1>4. PastTyped'
    BY <1>1 DEF Change, TypeOK, PastTyped
  <1> QED
    BY <1>2, <1>3, <1>4, MineTyped DEF Change, TypeOK

LEMMA RenameTyped ==
  ASSUME TypeOK, NEW p \in Panes, NEW n \in Name, Rename(p, n)
  PROVE  TypeOK'
  <1>1. world' \in World
    BY DEF Rename, TypeOK, HerdTyped, World
  <1>2. HerdTyped'
    BY <1>1 DEF Rename, TypeOK, HerdTyped
  <1>3. WireTyped'
    BY StructuralNote, PushTyped DEF Rename, TypeOK, Mine
  <1> QED
    BY <1>2, <1>3, MineTyped DEF Rename, TypeOK, PastTyped

LEMMA CutLine ==
  ASSUME NEW q \in Seq(Note), NEW m \in 0..Len(q)
  PROVE  /\ SubSeq(q, 1, m) \in Seq(Note) /\ Len(SubSeq(q, 1, m)) = m
         /\ \A i \in 1..m : SubSeq(q, 1, m)[i] = q[i] /\ i \in 1..Len(q)
  <1>1. Len(q) \in Nat /\ m \in Nat /\ \A i \in 1..m : i \in 1..Len(q)
    BY LenProperties
  <1>2. \A i \in 1..m : q[i] \in Note
    BY <1>1, ElementOfSeq
  <1>3. /\ SubSeq(q, 1, m) \in Seq(Note)
        /\ Len(SubSeq(q, 1, m)) = IF 1 <= m THEN m - 1 + 1 ELSE 0
        /\ \A i \in 1..(m - 1 + 1) : SubSeq(q, 1, m)[i] = q[1 + i - 1]
    BY <1>1, <1>2, SubSeqProperties
  <1> QED
    BY <1>1, <1>3

LEMMA DropTyped ==
  ASSUME TypeOK, Drop
  PROVE  TypeOK'
  <1> DEFINE w == [world EXCEPT !.drops = @ - 1]
  <1>0. world \in World /\ world.drops > 0 /\ world' = w
    BY DEF Drop, TypeOK, HerdTyped
  <1>1. world' \in World
    BY <1>0 DEF World
  <1>2. HerdTyped'
    BY <1>1 DEF Drop, TypeOK, HerdTyped
  <1>3. PICK m \in 0..Len(conn.line), n \in 0..Len(old.line) :
          /\ conn' = [up |-> FALSE, watch |-> conn.watch, line |-> SubSeq(conn.line, 1, m)]
          /\ old' = [up |-> FALSE, watch |-> old.watch, line |-> SubSeq(old.line, 1, n)]
    BY DEF Drop
  <1>4. conn' \in Connection /\ old' \in Connection
    BY <1>3, CutLine DEF TypeOK, WireTyped, Connection
  <1>5. WireTyped'
    BY <1>4 DEF Drop, TypeOK, WireTyped, Mine
  <1>6. PastTyped'
    BY DEF Drop, TypeOK, PastTyped
  <1> QED
    BY <1>2, <1>5, <1>6, MineTyped DEF Drop, TypeOK

LEMMA EmitTyped ==
  ASSUME NEW n \in Note, channel \in Seq(Note), PastTyped, Emit(n)
  PROVE  channel' \in Seq(Note) /\ PastTyped'
  <1>1. channel' \in Seq(Note)
    BY AppendProperties DEF Emit
  <1>2. CASE n.kind = "status"
    <2>1. n.pane \in Panes /\ n.status \in LiveStatus
      BY <1>2 DEF Note
    <2> QED
      BY <1>1, <1>2, <2>1 DEF Emit, PastTyped
  <1>3. CASE n.kind # "status"
    BY <1>1, <1>3 DEF Emit, PastTyped
  <1> QED
    BY <1>2, <1>3

(* What the stream does not touch keeps its type.                          *)
LEMMA OutsideTyped ==
  ASSUME TypeOK, world' \in World, WireTyped', PastTyped', UNCHANGED Outside
  PROVE  TypeOK'
  <1>1. HerdTyped'
    BY DEF TypeOK, HerdTyped, Outside
  <1>2. CallTyped' /\ TellTyped'
    BY DEF TypeOK, CallTyped, TellTyped, Outside, Listed, Call
  <1> QED
    BY <1>1, <1>2 DEF TypeOK

LEMMA SubscribedTyped ==
  ASSUME WireTyped
  PROVE  Subscribed \in Connection /\ Subscribed.up /\ Subscribed.watch = stream.panes /\ Subscribed.line = <<>>
  BY EmptySeq DEF WireTyped, Subscribed, Connection

LEMMA DialTyped ==
  ASSUME TypeOK, Dial
  PROVE  TypeOK'
  <1>1. world' \in World
    BY FailsTyped DEF Dial, TypeOK, HerdTyped
  <1>2. WireTyped'
    BY SubscribedTyped DEF Dial, TypeOK, WireTyped
  <1> QED
    BY <1>1, <1>2, OutsideTyped DEF Dial, TypeOK, PastTyped

LEMMA ResubscribeTyped ==
  ASSUME TypeOK, Resubscribe
  PROVE  TypeOK'
  <1>1. world' \in World
    BY FailsTyped DEF Resubscribe, TypeOK, HerdTyped
  <1>2. WireTyped'
    BY SubscribedTyped DEF Resubscribe, TypeOK, WireTyped
  <1> QED
    BY <1>1, <1>2, OutsideTyped DEF Resubscribe, TypeOK, PastTyped

LEMMA RetryTyped ==
  ASSUME TypeOK, Retry
  PROVE  TypeOK'
  <1>1. WireTyped'
    BY DEF Retry, TypeOK, WireTyped
  <1> QED
    BY <1>1, OutsideTyped DEF Retry, TypeOK, HerdTyped, PastTyped

LEMMA ReadTyped ==
  ASSUME TypeOK, Read
  PROVE  TypeOK'
  <1>1. conn \in Connection /\ conn.line \in Seq(Note) /\ conn.line # <<>>
    BY DEF Read, TypeOK, WireTyped, Connection
  <1>2. Head(conn.line) \in Note /\ Tail(conn.line) \in Seq(Note)
    BY <1>1, HeadTailProperties
  <1>3. conn' \in Connection
    BY <1>1, <1>2 DEF Read, Connection
  <1>4. channel' \in Seq(Note) /\ PastTyped'
    BY <1>2, EmitTyped DEF Read, TypeOK, WireTyped
  <1>5. WireTyped'
    BY <1>3, <1>4 DEF Read, TypeOK, WireTyped
  <1> QED
    BY <1>4, <1>5, OutsideTyped DEF Read, TypeOK, HerdTyped

LEMMA DrainReadTyped ==
  ASSUME TypeOK, DrainRead
  PROVE  TypeOK'
  <1>1. old \in Connection /\ old.line \in Seq(Note) /\ old.line # <<>>
    BY DEF DrainRead, TypeOK, WireTyped, Connection
  <1>2. Head(old.line) \in Note /\ Tail(old.line) \in Seq(Note)
    BY <1>1, HeadTailProperties
  <1>3. old' \in Connection
    BY <1>1, <1>2 DEF DrainRead, Connection
  <1>4. channel' \in Seq(Note) /\ PastTyped'
    BY <1>2, EmitTyped DEF DrainRead, TypeOK, WireTyped
  <1>5. WireTyped'
    BY <1>3, <1>4 DEF DrainRead, TypeOK, WireTyped
  <1> QED
    BY <1>4, <1>5, OutsideTyped DEF DrainRead, TypeOK, HerdTyped

LEMMA DrainEndsTyped ==
  ASSUME TypeOK, DrainEnds
  PROVE  TypeOK'
  <1>1. WireTyped'
    BY NowhereTyped DEF DrainEnds, TypeOK, WireTyped
  <1> QED
    BY <1>1, OutsideTyped DEF DrainEnds, TypeOK, HerdTyped, PastTyped

LEMMA ResetTyped ==
  ASSUME TypeOK, Reset
  PROVE  TypeOK'
  <1>1. channel' \in Seq(Note) /\ PastTyped'
    BY ResetNote, EmitTyped DEF Reset, TypeOK, WireTyped
  <1>2. WireTyped'
    BY <1>1, NowhereTyped DEF Reset, TypeOK, WireTyped
  <1> QED
    BY <1>1, <1>2, OutsideTyped DEF Reset, TypeOK, HerdTyped

LEMMA PauseTyped ==
  ASSUME TypeOK, Pause
  PROVE  TypeOK'
  <1>1. WireTyped'
    BY DEF Pause, TypeOK, WireTyped
  <1> QED
    BY <1>1, OutsideTyped DEF Pause, TypeOK, HerdTyped, PastTyped

(* A caller's listing replaced, the rest kept.                             *)
LEMMA CallChanged ==
  ASSUME CallTyped, NEW c \in Callers, NEW l \in Call,
         Listed(l), call' = [call EXCEPT ![c] = l]
  PROVE  CallTyped'
  <1>1. call' \in [Callers -> Call]
    BY DEF CallTyped, Call
  <1>2. ASSUME NEW d \in Callers PROVE Listed(call'[d])
    <2>1. CASE d = c
      BY <2>1 DEF CallTyped, Call
    <2>2. CASE d # c
      BY <2>2 DEF CallTyped, Call
    <2> QED
      BY <2>1, <2>2
  <1> QED
    BY <1>1, <1>2 DEF CallTyped, Listed, Call

LEMMA NoCallListed == NoCall \in Call /\ Listed(NoCall)
  BY ViewOfNone DEF NoCall, Listed, Call

LEMMA CallHere ==
  ASSUME CallTyped, NEW c \in Callers
  PROVE  /\ call[c] \in Call
         /\ Listed(call[c])
  BY DEF CallTyped, Call

LEMMA ListTyped ==
  ASSUME TypeOK, NEW c \in Callers, List(c)
  PROVE  TypeOK'
  <1> DEFINE l == [at |-> "labels", agents |-> herdr]
  <1>1. Listed(l) /\ l \in Call
    BY DEF Listed, TypeOK, HerdTyped, Call
  <1>2. call' = [call EXCEPT ![c] = l]
    BY DEF List
  <1> HIDE DEF l
  <1>3. CallTyped'
    BY <1>1, <1>2, CallChanged DEF TypeOK
  <1>4. HerdTyped' /\ WireTyped'
    BY DEF List, Others, TypeOK, HerdTyped, WireTyped
  <1>5. TellTyped' /\ PastTyped'
    BY DEF List, Others, TypeOK, TellTyped, PastTyped
  <1> QED
    BY <1>3, <1>4, <1>5 DEF TypeOK

LEMMA LabelsTyped ==
  ASSUME TypeOK, NEW c \in Callers, Labels(c)
  PROVE  TypeOK' /\ KeysOf(call[c].agents) = KeysOf({Named(a) : a \in call[c].agents})
  <1> DEFINE l == [at |-> "apply", agents |-> {Named(a) : a \in call[c].agents}]
  <1>1. /\ call[c] \in Call
        /\ call[c].agents \in SUBSET Runner /\ View(call[c].agents) /\ label \in [Panes -> Name]
    BY CallHere DEF Labels, Listed, TypeOK, HerdTyped, Call
  <1>2. /\ View({Named(a) : a \in call[c].agents}) /\ {Named(a) : a \in call[c].agents} \subseteq Agent
        /\ KeysOf({Named(a) : a \in call[c].agents}) = KeysOf(call[c].agents)
    BY <1>1, NamedView
  <1>3. Listed(l) /\ l \in Call
    BY <1>2 DEF Listed, Call
  <1>4. call' = [call EXCEPT ![c] = l]
    BY DEF Labels, TypeOK, CallTyped, Call
  <1> HIDE DEF l
  <1>5. CallTyped'
    BY <1>3, <1>4, CallChanged DEF TypeOK
  <1>6. HerdTyped' /\ WireTyped'
    BY DEF Labels, Others, TypeOK, HerdTyped, WireTyped
  <1>7. TellTyped' /\ PastTyped'
    BY DEF Labels, Others, TypeOK, TellTyped, PastTyped
  <1> QED
    BY <1>2, <1>5, <1>6, <1>7 DEF TypeOK

LEMMA SendsTyped ==
  ASSUME TellTyped, NEW c \in Callers, NEW q \in Seq(Event), Sends(c, q), reg' = reg, feed' = feed
  PROVE  TellTyped'
  <1>1. CASE c = "registry"
    BY <1>1 DEF TellTyped, Sends
  <1>2. CASE c # "registry"
    BY <1>2 DEF TellTyped, Sends
  <1> QED
    BY <1>1, <1>2

LEMMA CallFailsTyped ==
  ASSUME TypeOK, NEW c \in Callers, CallFails(c)
  PROVE  TypeOK'
  <1>1. HerdTyped' /\ WireTyped'
    BY FailsTyped DEF CallFails, Others, TypeOK, HerdTyped, WireTyped
  <1>2. CallTyped'
    BY NoCallListed, CallChanged DEF CallFails, Ends, TypeOK
  <1>3. TellTyped'
    BY EmptySeq, SendsTyped DEF CallFails, TypeOK
  <1>4. PastTyped'
    BY DEF CallFails, TypeOK, PastTyped
  <1> QED
    BY <1>1, <1>2, <1>3, <1>4 DEF TypeOK

LEMMA ApplySnapshotTyped ==
  ASSUME TypeOK, NEW c \in Callers, ApplySnapshot(c)
  PROVE  TypeOK'
  <1> DEFINE l == [call[c] EXCEPT !.at = "watch"]
  <1>1. /\ call[c] \in Call
        /\ call[c].agents \in SUBSET Agent /\ View(call[c].agents)
    BY CallHere DEF ApplySnapshot, Listed, TypeOK, Call
  <1>2. Listed(l) /\ l \in Call
    BY <1>1 DEF Listed, Call
  <1>3. call' = [call EXCEPT ![c] = l]
    BY DEF ApplySnapshot, TypeOK, CallTyped, Call
  <1> HIDE DEF l
  <1>4. CallTyped'
    BY <1>2, <1>3, CallChanged DEF TypeOK
  <1>5. HerdTyped' /\ WireTyped'
    BY DEF ApplySnapshot, Others, TypeOK, HerdTyped, WireTyped
  <1>6. SnapshotEvents(reg.agents, call[c].agents) \in Seq(Event)
    BY <1>1, DifferenceTyped DEF TypeOK, TellTyped, View
  <1>7. TellTyped'
    BY <1>1, <1>6 DEF ApplySnapshot, Known, TypeOK, TellTyped
  <1>8. PastTyped'
    BY DEF ApplySnapshot, TypeOK, PastTyped
  <1> QED
    BY <1>4, <1>5, <1>7, <1>8 DEF TypeOK

LEMMA WatchTyped ==
  ASSUME TypeOK, NEW c \in Callers, Watch(c)
  PROVE  TypeOK'
  <1>1. call[c].agents \in SUBSET Agent
    BY CallHere DEF Watch, Listed, TypeOK, Call
  <1>2. PanesOf(call[c].agents) \subseteq Panes
    BY <1>1 DEF PanesOf, Panes, Agent
  <1>3. HerdTyped'
    BY DEF Watch, Others, TypeOK, HerdTyped
  <1>4. WireTyped'
    BY <1>2 DEF Watch, Others, TypeOK, WireTyped
  <1>5. CallTyped'
    BY NoCallListed, CallChanged DEF Watch, Ends, TypeOK
  <1>6. loop.events \in Seq(Event) /\ daemon.events \in Seq(Event)
    BY DEF TypeOK, TellTyped
  <1>7. TellTyped'
    BY <1>6, SendsTyped DEF Watch, TypeOK
  <1>8. PastTyped'
    BY DEF Watch, TypeOK, PastTyped
  <1> QED
    BY <1>3, <1>4, <1>5, <1>7, <1>8 DEF TypeOK

LEMMA WithStatus ==
  ASSUME NEW a \in Agent, NEW s \in LiveStatus
  PROVE  [a EXCEPT !.status = s] \in Agent /\ [a EXCEPT !.status = s].key = a.key
  BY DEF Agent

(* A notice changes at most the one agent of its pane.                     *)
LEMMA UpdatedShape ==
  ASSUME TellTyped, NEW n \in Note
  PROVE  \/ Updated(n) = {}
         \/ \E a \in Visible : /\ a.key.pane = n.pane /\ n.status \in LiveStatus
                               /\ Updated(n) = {[a EXCEPT !.status = n.status]}
  <1>1. \A a, b \in Visible : a.key.pane = b.key.pane => a = b
    BY DEF TellTyped, View, OnePerPane, Visible
  <1> DEFINE hit == IF n.kind = "status" THEN InPane(Visible, n.pane) ELSE {b \in Visible : b.key = n.key}
  <1>2. CASE n.kind = "status" \/ n.kind = "updated"
    <2>1. Updated(n) = {[a EXCEPT !.status = n.status] : a \in hit}
      BY <1>2 DEF Updated
    <2>2. n.status \in LiveStatus /\ \A a \in hit : a \in Visible /\ a.key.pane = n.pane
      BY <1>2 DEF Note, InPane
    <2> HIDE DEF hit
    <2>3. CASE hit = {}
      BY <2>1, <2>3
    <2>4. CASE hit # {}
      <3>1. PICK a \in hit : TRUE
        BY <2>4
      <3>2. hit = {a}
        BY <1>1, <2>2, <3>1
      <3> QED
        BY <2>1, <2>2, <3>2
    <2> QED
      BY <2>3, <2>4
  <1>3. CASE n.kind # "status" /\ n.kind # "updated"
    BY <1>3 DEF Updated
  <1> QED
    BY <1>2, <1>3

LEMMA AfterChange ==
  ASSUME NEW S, View(S), NEW a \in S, NEW b, b.key = a.key
  PROVE  {c \in S : c.key \notin KeysOf({b})} \cup {b} = (S \ {a}) \cup {b}
  <1>1. \A c \in S : c.key = a.key <=> c = a
    BY DEF View, OnePerPane
  <1> QED
    BY <1>1 DEF KeysOf

LEMMA NoEvents == EventsOf("changed", {}) = <<>>
  <1>1. EventsOf("changed", {}) \in Seq(Event) /\ Len(EventsOf("changed", {})) = Cardinality({})
    BY FS_EmptySet, EventsTyped, EventsAre
  <1>2. Len(EventsOf("changed", {})) = 0
    BY <1>1, FS_EmptySet
  <1> QED
    BY <1>1, <1>2, EmptySeq

LEMMA ApplyFacts ==
  ASSUME TellTyped, NEW n \in Note, Apply(n)
  PROVE  \/ reg'.agents = reg.agents /\ loop'.events = <<>>
         \/ \E a \in Visible, b \in Agent :
              /\ a.key.pane = n.pane /\ b.key = a.key
              /\ reg'.agents = (reg.agents \ {a}) \cup {b}
              /\ loop'.events = EventsOf("changed", {b} \ reg.agents)
  <1>1. /\ reg'.agents = {a \in reg.agents : a.key \notin KeysOf(Updated(n))} \cup Updated(n)
        /\ loop'.events = EventsOf("changed", Updated(n) \ reg.agents)
    BY DEF Apply, TellTyped
  <1>2. CASE Updated(n) = {}
    <2>1. reg'.agents = reg.agents
      BY <1>1, <1>2 DEF KeysOf
    <2>2. loop'.events = <<>>
      BY <1>1, <1>2, NoEvents
    <2> QED
      BY <2>1, <2>2
  <1>3. CASE Updated(n) # {}
    <2>1. PICK a \in Visible : /\ a.key.pane = n.pane /\ n.status \in LiveStatus
                               /\ Updated(n) = {[a EXCEPT !.status = n.status]}
      BY <1>3, UpdatedShape
    <2> DEFINE b == [a EXCEPT !.status = n.status]
    <2>2. a \in reg.agents /\ a \in Agent
      BY DEF Visible, TellTyped
    <2>3. b \in Agent /\ b.key = a.key
      BY <2>1, <2>2, WithStatus
    <2> HIDE DEF b
    <2>4. Updated(n) = {b}
      BY <2>1 DEF b
    <2>5. reg'.agents = (reg.agents \ {a}) \cup {b}
      BY <1>1, <2>2, <2>3, <2>4, AfterChange DEF TellTyped
    <2> QED
      BY <1>1, <2>1, <2>3, <2>4, <2>5
  <1> QED
    BY <1>2, <1>3

LEMMA ApplyTyped ==
  ASSUME TellTyped, NEW n \in Note, Apply(n), feed' = feed, daemon' = daemon
  PROVE  TellTyped'
  <1>1. reg'.agents \subseteq Agent /\ View(reg'.agents) /\ loop'.events \in Seq(Event)
    <2>1. CASE reg'.agents = reg.agents /\ loop'.events = <<>>
      BY <2>1, EmptySeq DEF TellTyped
    <2>2. CASE \E a \in Visible, b \in Agent :
                 /\ a.key.pane = n.pane /\ b.key = a.key
                 /\ reg'.agents = (reg.agents \ {a}) \cup {b}
                 /\ loop'.events = EventsOf("changed", {b} \ reg.agents)
      <3>1. PICK a \in Visible, b \in Agent :
                 /\ a.key.pane = n.pane /\ b.key = a.key
                 /\ reg'.agents = (reg.agents \ {a}) \cup {b}
                 /\ loop'.events = EventsOf("changed", {b} \ reg.agents)
        BY <2>2
      <3>2. a \in reg.agents
        BY DEF Visible
      <3>3. reg'.agents \subseteq Agent
        BY <3>1 DEF TellTyped
      <3>4. View(reg'.agents)
        <4>1. View(reg.agents) /\ b.key.pane = a.key.pane
          BY <3>1 DEF TellTyped
        <4>2. View((reg.agents \ {a}) \cup {b})
          BY <3>2, <4>1, ViewAfter
        <4> QED
          BY <3>1, <4>2
      <3>5. {b} \ reg.agents \in SUBSET Agent /\ IsFiniteSet({b} \ reg.agents)
        <4>1. IsFiniteSet({b}) /\ {b} \ reg.agents \subseteq {b}
          BY FS_Singleton
        <4> QED
          BY <4>1, FS_Subset
      <3>6. loop'.events \in Seq(Event)
        BY <3>1, <3>5, EventsTyped
      <3> QED
        BY <3>3, <3>4, <3>6
    <2> QED
      BY <2>1, <2>2, ApplyFacts
  <1>2. Retire(n.pane) \subseteq Key
    BY DEF Retire, InPane, TellTyped, Agent
  <1>3. reg' \in [agents: SUBSET Agent, retired: SUBSET Key]
    BY <1>1, <1>2 DEF Apply, TellTyped
  <1>4. loop' \in [at: {"idle", "snapshot"}, coalesce: BOOLEAN, events: Seq(Event)]
    <2>1. Structural(n) \in BOOLEAN
      BY DEF Structural
    <2> DEFINE q == EventsOf("changed", Updated(n) \ reg.agents)
               co == loop.coalesce \/ Structural(n)
    <2>2. loop' = [loop EXCEPT !.coalesce = co, !.events = q]
      BY DEF Apply
    <2> HIDE DEF q, co
    <2>3. loop \in [at: {"idle", "snapshot"}, coalesce: BOOLEAN, events: Seq(Event)] /\ co \in BOOLEAN
      BY DEF TellTyped, co
    <2>4. q \in Seq(Event)
      BY <1>1, <2>2, <2>3
    <2> QED
      BY <2>2, <2>3, <2>4
  <1> QED
    BY <1>1, <1>3, <1>4 DEF TellTyped

LEMMA AsksTyped ==
  ASSUME CallTyped, TellTyped, AsksNow, call["registry"].at = "none", reg' = reg, feed' = feed, daemon' = daemon
  PROVE  CallTyped' /\ TellTyped'
  <1> DEFINE l == [call["registry"] EXCEPT !.at = "list"]
  <1>1. "registry" \in Callers
    BY DEF Callers
  <1>2. /\ call["registry"] \in Call
        /\ Listed(call["registry"])
    BY <1>1, CallHere
  <1>3. l \in Call /\ Listed(l)
    BY <1>2 DEF Listed, Call
  <1>4. call' = [call EXCEPT !["registry"] = l]
    BY <1>1 DEF AsksNow, CallTyped, Call
  <1> HIDE DEF l
  <1>5. CallTyped'
    BY <1>1, <1>3, <1>4, CallChanged
  <1>6. loop' = [loop EXCEPT !.at = "snapshot", !.coalesce = FALSE]
    BY DEF AsksNow, Asked
  <1>7. TellTyped'
    BY <1>6 DEF TellTyped
  <1> QED
    BY <1>5, <1>7

LEMMA TakeTyped ==
  ASSUME TypeOK, CallOK, Take
  PROVE  TypeOK'
  <1>1. channel \in Seq(Note) /\ channel # <<>>
    BY DEF Take, TypeOK, WireTyped
  <1>2. Head(channel) \in Note /\ Tail(channel) \in Seq(Note)
    BY <1>1, HeadTailProperties
  <1>3. HerdTyped'
    BY DEF Take, TypeOK, HerdTyped
  <1>4. WireTyped'
    BY <1>2 DEF Take, TypeOK, WireTyped
  <1>5. CASE Head(channel).kind = "reset" /\ AsksNow /\ UNCHANGED <<reg, past>>
    <2>1. call["registry"].at = "none"
      BY DEF CallOK, Take, Ready
    <2>2. CallTyped' /\ TellTyped'
      BY <1>5, <2>1, AsksTyped DEF Take, TypeOK
    <2>3. PastTyped'
      BY <1>5 DEF TypeOK, PastTyped
    <2> QED
      BY <1>3, <1>4, <2>2, <2>3 DEF TypeOK
  <1>6. CASE Head(channel).kind # "reset" /\ Apply(Head(channel)) /\ UNCHANGED call
    <2>1. TellTyped'
      BY <1>2, <1>6, ApplyTyped DEF Take, TypeOK
    <2>2. CallTyped'
      BY <1>6 DEF TypeOK, CallTyped, Listed, Call
    <2>3. Head(channel).gone \subseteq Key
      BY <1>2 DEF Note
    <2>4. PastTyped'
      BY <1>6, <2>3 DEF Apply, TypeOK, PastTyped
    <2> QED
      BY <1>3, <1>4, <2>1, <2>2, <2>4 DEF TypeOK
  <1> QED
    BY <1>5, <1>6 DEF Take

LEMMA SnapshotStartTyped ==
  ASSUME TypeOK, CallOK, NEW why, Snapshot(why)
  PROVE  TypeOK'
  <1>1. HerdTyped' /\ WireTyped'
    BY DEF Snapshot, TypeOK, HerdTyped, WireTyped
  <1>2. call["registry"].at = "none"
    BY DEF CallOK, Snapshot, Ready
  <1>3. CallTyped' /\ TellTyped'
    BY <1>2, AsksTyped DEF Snapshot, TypeOK
  <1>4. PastTyped'
    BY DEF Snapshot, TypeOK, PastTyped
  <1> QED
    BY <1>1, <1>3, <1>4 DEF TypeOK

LEMMA TellsTyped ==
  ASSUME TypeOK, Tell
  PROVE  TypeOK'
  <1>1. HerdTyped' /\ WireTyped'
    BY DEF Tell, TypeOK, HerdTyped, WireTyped
  <1>2. CallTyped' /\ PastTyped'
    BY DEF Tell, TypeOK, CallTyped, Listed, PastTyped, Call
  <1>3. loop.events \in Seq(Event) /\ loop.events # <<>> /\ feed \in Seq(Event)
    BY DEF Tell, TypeOK, TellTyped
  <1>4. Head(loop.events) \in Event /\ Tail(loop.events) \in Seq(Event)
    BY <1>3, HeadTailProperties
  <1>5. Append(feed, Head(loop.events)) \in Seq(Event)
    BY <1>3, <1>4, AppendProperties
  <1>6. TellTyped'
    BY <1>4, <1>5 DEF Tell, TypeOK, TellTyped
  <1> QED
    BY <1>1, <1>2, <1>6 DEF TypeOK

LEMMA HearTyped ==
  ASSUME NEW S \in SUBSET Agent, NEW e \in Event
  PROVE  Hear(S, e) \in SUBSET Agent
  BY DEF Hear, Event

LEMMA DispatchTyped ==
  ASSUME TypeOK, Dispatch
  PROVE  TypeOK'
  <1>1. HerdTyped' /\ WireTyped'
    BY DEF Dispatch, TypeOK, HerdTyped, WireTyped
  <1>2. CallTyped' /\ PastTyped'
    BY DEF Dispatch, TypeOK, CallTyped, Listed, PastTyped, Call
  <1>3. TellTyped'
    <2>1. CASE daemon.at = "dispatch" /\ daemon.events = <<>>
      BY <2>1 DEF Dispatch, TypeOK, TellTyped
    <2>2. CASE daemon.at = "dispatch" /\ daemon.events # <<>>
      <3>1. Head(daemon.events) \in Event /\ Tail(daemon.events) \in Seq(Event)
        BY <2>2, HeadTailProperties DEF TypeOK, TellTyped
      <3>2. Hear(daemon.seen, Head(daemon.events)) \in SUBSET Agent
        BY <3>1, HearTyped DEF TypeOK, TellTyped
      <3> QED
        BY <2>2, <3>1, <3>2 DEF Dispatch, TypeOK, TellTyped
    <2>3. CASE daemon.at # "dispatch"
      <3>1. Head(feed) \in Event /\ Tail(feed) \in Seq(Event)
        BY <2>3, HeadTailProperties DEF Dispatch, TypeOK, TellTyped
      <3>2. Hear(daemon.seen, Head(feed)) \in SUBSET Agent
        BY <3>1, HearTyped DEF TypeOK, TellTyped
      <3> QED
        BY <2>3, <3>1, <3>2 DEF Dispatch, TypeOK, TellTyped
    <2> QED
      BY <2>1, <2>2, <2>3
  <1> QED
    BY <1>1, <1>2, <1>3 DEF TypeOK

LEMMA ReplayTyped ==
  ASSUME TypeOK, CallOK, Replay
  PROVE  TypeOK'
  <1> DEFINE l == [call["daemon"] EXCEPT !.at = "list"]
             w == [world EXCEPT !.replays = @ - 1]
  <1>1. world' \in World
    <2>1. world \in World /\ world.replays > 0 /\ world' = w
      BY DEF Replay, TypeOK, HerdTyped
    <2> QED
      BY <2>1 DEF World
  <1>2. HerdTyped' /\ WireTyped'
    BY <1>1 DEF Replay, TypeOK, HerdTyped, WireTyped
  <1>3. "daemon" \in Callers /\ call["daemon"].at = "none"
    BY DEF Callers, CallOK, Replay
  <1>4. /\ call["daemon"] \in Call
        /\ Listed(call["daemon"])
    BY <1>3, CallHere DEF TypeOK
  <1>5. l \in Call /\ Listed(l)
    BY <1>3, <1>4 DEF Listed, Call
  <1>6. call' = [call EXCEPT !["daemon"] = l]
    BY <1>3 DEF Replay, TypeOK, CallTyped, Call
  <1> HIDE DEF l, w
  <1>7. CallTyped'
    BY <1>3, <1>5, <1>6, CallChanged DEF TypeOK
  <1>8. TellTyped'
    BY DEF Replay, TypeOK, TellTyped
  <1>9. PastTyped'
    BY DEF Replay, TypeOK, PastTyped
  <1> QED
    BY <1>2, <1>7, <1>8, <1>9 DEF TypeOK

LEMMA StutterTyped ==
  ASSUME TypeOK, UNCHANGED vars
  PROVE  TypeOK'
  BY DEF vars, TypeOK, HerdTyped, WireTyped, CallTyped, TellTyped, PastTyped, Listed, Call

---------------------------------------------------------------------------
(* What Herdr and the stream leave alone.                                  *)

LEMMA HerdrKeeps ==
  ASSUME TypeOK, Herdr
  PROVE  /\ UNCHANGED Mine /\ world'.slow = world.slow
         /\ past'.replayed = past.replayed /\ past'.told = past.told /\ past'.emitted = past.emitted
  <1>1. world \in World
    BY DEF TypeOK, HerdTyped
  <1>2. CASE \E a \in Agents : Appear(a)
    BY <1>1, <1>2, ActsTyped DEF Appear, TypeOK, PastTyped
  <1>3. CASE \E a \in herdr : \E kind \in {"released", "closed"} : Leave(a, kind)
    BY <1>1, <1>3, ActsTyped DEF Leave, TypeOK, PastTyped
  <1>4. CASE \E a \in herdr : \E b \in Agents : Replace(a, b)
    BY <1>1, <1>4, ActsTyped DEF Replace, TypeOK, PastTyped
  <1>5. CASE \E a \in herdr : \E s \in LiveStatus : Change(a, s)
    BY <1>1, <1>5, ActsTyped DEF Change, TypeOK, PastTyped
  <1>6. CASE \E p \in Panes, n \in Name : Rename(p, n)
    BY <1>1, <1>6 DEF Rename, World
  <1>7. CASE Drop
    BY <1>1, <1>7 DEF Drop, World, TypeOK, PastTyped
  <1> QED
    BY <1>2, <1>3, <1>4, <1>5, <1>6, <1>7 DEF Herdr

LEMMA EmitKeeps ==
  ASSUME PastTyped, NEW n, Emit(n)
  PROVE  /\ past'.replayed = past.replayed /\ past'.told = past.told
         /\ past'.ran = past.ran /\ past'.pushed = past.pushed
  BY DEF PastTyped, Emit

LEMMA StreamKeeps ==
  ASSUME TypeOK, Stream
  PROVE  /\ UNCHANGED Outside /\ world'.slow = world.slow
         /\ past'.replayed = past.replayed /\ past'.told = past.told
         /\ past'.ran = past.ran /\ past'.pushed = past.pushed
  <1>1. world \in World /\ PastTyped
    BY DEF TypeOK, HerdTyped
  <1>2. CASE Dial
    BY <1>1, <1>2, FailsTyped DEF Dial
  <1>3. CASE Resubscribe
    BY <1>1, <1>3, FailsTyped DEF Resubscribe
  <1>4. CASE Retry
    BY <1>4 DEF Retry
  <1>5. CASE Read
    BY <1>1, <1>5, EmitKeeps DEF Read
  <1>6. CASE DrainRead
    BY <1>1, <1>6, EmitKeeps DEF DrainRead
  <1>7. CASE DrainEnds
    BY <1>7 DEF DrainEnds
  <1>8. CASE Reset
    BY <1>1, <1>8, EmitKeeps DEF Reset
  <1>9. CASE Pause
    BY <1>9 DEF Pause
  <1> QED
    BY <1>2, <1>3, <1>4, <1>5, <1>6, <1>7, <1>8, <1>9 DEF Stream

---------------------------------------------------------------------------
(* What the daemon is told is what the registry has.                       *)

FeedOK == CallOK /\ ToldOK

LEMMA FeedUntouched ==
  ASSUME FeedOK, UNCHANGED <<reg, loop, call, feed, daemon>>, past'.replayed = past.replayed
  PROVE  FeedOK'
  BY DEF FeedOK, CallOK, ToldOK

LEMMA ListFeed ==
  ASSUME TypeOK, FeedOK, NEW c \in Callers, List(c)
  PROVE  FeedOK'
  <1>0. /\ call' = [call EXCEPT ![c] = [at |-> "labels", agents |-> call'[c].agents]]
        /\ call[c].at = "list"
    BY DEF List, TypeOK, CallTyped, Call
  <1>1. /\ \A d \in Callers : /\ (call'[d].at = "none" <=> call[d].at = "none")
                            /\ (call'[d].at \in Early <=> call[d].at \in Early)
        /\ "registry" \in Callers /\ "daemon" \in Callers
    BY <1>0 DEF Early, TypeOK, CallTyped, Callers, Call
  <1>2. UNCHANGED <<reg, loop, feed, daemon, past>>
    BY DEF List
  <1> QED
    BY <1>1, <1>2 DEF FeedOK, CallOK, ToldOK

LEMMA LabelsFeed ==
  ASSUME TypeOK, FeedOK, NEW c \in Callers, Labels(c)
  PROVE  FeedOK'
  <1>0. /\ call' = [call EXCEPT ![c] = [at |-> "apply", agents |-> call'[c].agents]]
        /\ call[c].at = "labels"
    BY DEF Labels, TypeOK, CallTyped, Call
  <1>1. /\ \A d \in Callers : /\ (call'[d].at = "none" <=> call[d].at = "none")
                            /\ (call'[d].at \in Early <=> call[d].at \in Early)
        /\ "registry" \in Callers /\ "daemon" \in Callers
    BY <1>0 DEF Early, TypeOK, CallTyped, Callers, Call
  <1>2. UNCHANGED <<reg, loop, feed, daemon, past>>
    BY DEF Labels
  <1> QED
    BY <1>1, <1>2 DEF FeedOK, CallOK, ToldOK

LEMMA OfCallers ==
  ASSUME CallTyped, NEW c \in Callers, NEW l, call' = [call EXCEPT ![c] = l]
  PROVE  /\ call'[c] = l /\ c \in {"registry", "daemon"}
         /\ c = "registry" => call'["daemon"] = call["daemon"]
         /\ c = "daemon" => call'["registry"] = call["registry"]
  BY DEF CallTyped, Callers, Call

LEMMA CallFailsFeed ==
  ASSUME TypeOK, FeedOK, NEW c \in Callers, CallFails(c)
  PROVE  FeedOK'
  <1>1. /\ call'[c] = NoCall /\ c \in {"registry", "daemon"} /\ NoCall.at = "none"
        /\ c = "registry" => call'["daemon"] = call["daemon"]
        /\ c = "daemon" => call'["registry"] = call["registry"]
    BY OfCallers DEF CallFails, Ends, TypeOK, NoCall, Call
  <1>2. UNCHANGED <<reg, feed, past>> /\ call[c].at \in Early /\ call[c].at # "none"
    BY DEF CallFails, Early
  <1>3. CASE c = "registry"
    <2>1. loop' = [loop EXCEPT !.at = "idle", !.events = <<>>] /\ daemon' = daemon
      BY <1>3 DEF CallFails, Sends
    <2>2. loop'.at = "idle" /\ loop'.events = <<>>
      BY <2>1 DEF TypeOK, TellTyped
    <2>3. loop.events = <<>>
      BY <1>2, <1>3 DEF FeedOK, CallOK
    <2>4. CallOK'
      BY <1>1, <1>2, <1>3, <2>1, <2>2 DEF FeedOK, CallOK
    <2>5. ToldOK'
      BY <1>2, <2>1, <2>2, <2>3 DEF FeedOK, ToldOK
    <2> QED
      BY <2>4, <2>5 DEF FeedOK
  <1>4. CASE c = "daemon"
    <2>1. daemon' = [daemon EXCEPT !.at = "dispatch", !.events = <<>>] /\ loop' = loop
      BY <1>4 DEF CallFails, Sends
    <2>2. daemon'.at = "dispatch" /\ daemon'.events = <<>> /\ daemon'.seen = daemon.seen
      BY <2>1 DEF TypeOK, TellTyped
    <2>3. ~past.replayed => daemon.events = <<>>
      BY <1>2, <1>4 DEF FeedOK, CallOK
    <2>4. CallOK'
      BY <1>1, <1>2, <1>4, <2>1, <2>2 DEF FeedOK, CallOK
    <2>5. ToldOK'
      BY <1>2, <2>1, <2>2, <2>3 DEF FeedOK, ToldOK
    <2> QED
      BY <2>4, <2>5 DEF FeedOK
  <1> QED
    BY <1>1, <1>3, <1>4

LEMMA ApplySnapshotFeed ==
  ASSUME TypeOK, FeedOK, NEW c \in Callers, ApplySnapshot(c)
  PROVE  FeedOK'
  <1> DEFINE W == call[c].agents
             q == SnapshotEvents(reg.agents, W)
  <1>1. /\ call'[c].at = "watch" /\ c \in {"registry", "daemon"}
        /\ c = "registry" => call'["daemon"] = call["daemon"]
        /\ c = "daemon" => call'["registry"] = call["registry"]
    BY DEF ApplySnapshot, TypeOK, CallTyped, Callers, Call
  <1>2. UNCHANGED <<feed, past>> /\ call[c].at \in Early /\ call[c].at # "none" /\ reg'.agents = W
    BY DEF ApplySnapshot, Early
  <1>3. W \in SUBSET Agent /\ View(W) /\ reg.agents \in SUBSET Agent /\ View(reg.agents)
    BY CallHere DEF ApplySnapshot, Listed, TypeOK, TellTyped, Call
  <1>4. Fold(reg.agents, q) = W
    <2>1. Distinct(W) /\ IsFiniteSet(W) /\ Distinct(reg.agents) /\ IsFiniteSet(reg.agents)
      BY <1>3, ViewIsDistinct
    <2> QED
      BY <1>3, <2>1, FoldSnapshot
  <1> HIDE DEF W
  <1>5. CASE c = "registry"
    <2>1. loop' = [loop EXCEPT !.events = q] /\ daemon' = daemon
      BY <1>5 DEF ApplySnapshot, Known, W
    <2> HIDE DEF q
    <2>2. loop'.at = loop.at /\ loop'.events = q
      BY <2>1 DEF TypeOK, TellTyped
    <2>3. loop.at = "snapshot" /\ loop.events = <<>> /\ daemon.at # "start"
      BY <1>2, <1>5 DEF FeedOK, CallOK
    <2>4. CallOK'
      BY <1>1, <1>2, <1>5, <2>1, <2>2, <2>3 DEF FeedOK, CallOK, Early
    <2>5. ToldOK'
      <3> SUFFICES ASSUME ~past.replayed
                   PROVE  Fold(Fold(Fold(daemon.seen, daemon.events), feed), q) = W
        BY <1>2, <2>1, <2>2 DEF ToldOK
      <3>1. Fold(Fold(Fold(daemon.seen, daemon.events), feed), <<>>) = reg.agents
        BY <2>3 DEF FeedOK, ToldOK
      <3>2. Fold(Fold(daemon.seen, daemon.events), feed) = reg.agents
        BY <3>1, FoldOfNone
      <3> QED
        BY <1>4, <3>2
    <2> QED
      BY <2>4, <2>5 DEF FeedOK
  <1>6. CASE c = "daemon"
    <2>1. daemon' = [daemon EXCEPT !.events = q] /\ loop' = loop
      BY <1>6 DEF ApplySnapshot, Known, W
    <2> HIDE DEF q
    <2>2. daemon'.at = daemon.at /\ daemon'.events = q /\ daemon'.seen = daemon.seen
      BY <2>1 DEF TypeOK, TellTyped
    <2>3. daemon.at \in {"start", "replay"}
      BY <1>2, <1>6 DEF FeedOK, CallOK
    <2>4. CallOK'
      BY <1>1, <1>2, <1>6, <2>1, <2>2, <2>3 DEF FeedOK, CallOK, Early
    <2>5. ToldOK'
      <3> SUFFICES ASSUME ~past.replayed
                   PROVE  Fold(Fold(Fold(daemon.seen, q), feed), loop.events) = W
        BY <1>2, <2>1, <2>2 DEF ToldOK
      <3>1. daemon.seen = {} /\ feed = <<>> /\ loop.events = <<>> /\ reg.agents = {}
        BY <1>2, <1>6, <2>3 DEF FeedOK, CallOK
      <3>2. Fold(daemon.seen, q) = W
        BY <1>4, <3>1
      <3> QED
        BY <3>1, <3>2, FoldOfNone
    <2> QED
      BY <2>4, <2>5 DEF FeedOK
  <1> QED
    BY <1>1, <1>5, <1>6

LEMMA WatchFeed ==
  ASSUME TypeOK, FeedOK, NEW c \in Callers, Watch(c)
  PROVE  FeedOK'
  <1>1. /\ call'[c] = NoCall /\ c \in {"registry", "daemon"} /\ NoCall.at = "none"
        /\ c = "registry" => call'["daemon"] = call["daemon"]
        /\ c = "daemon" => call'["registry"] = call["registry"]
    BY OfCallers DEF Watch, Ends, TypeOK, NoCall, Call
  <1>2. UNCHANGED <<reg, feed, past>> /\ call[c].at # "none"
    BY DEF Watch
  <1>3. CASE c = "registry"
    <2>1. loop' = [loop EXCEPT !.at = "idle", !.events = loop.events] /\ daemon' = daemon
      BY <1>3 DEF Watch, Sends
    <2>2. loop'.at = "idle" /\ loop'.events = loop.events
      BY <2>1 DEF TypeOK, TellTyped
    <2> QED
      BY <1>1, <1>2, <1>3, <2>1, <2>2 DEF FeedOK, CallOK, ToldOK
  <1>4. CASE c = "daemon"
    <2>1. daemon' = [daemon EXCEPT !.at = "dispatch", !.events = daemon.events] /\ loop' = loop
      BY <1>4 DEF Watch, Sends
    <2>2. daemon'.at = "dispatch" /\ daemon'.events = daemon.events /\ daemon'.seen = daemon.seen
      BY <2>1 DEF TypeOK, TellTyped
    <2> QED
      BY <1>1, <1>2, <1>4, <2>1, <2>2 DEF FeedOK, CallOK, ToldOK
  <1> QED
    BY <1>1, <1>3, <1>4

LEMMA AsksFeed ==
  ASSUME TypeOK, FeedOK, Ready, AsksNow, UNCHANGED <<reg, feed, daemon, past>>
  PROVE  FeedOK'
  <1>1. loop'.at = "snapshot" /\ loop'.events = <<>> /\ loop.events = <<>> /\ daemon.at # "start"
    BY DEF Ready, AsksNow, Asked, TypeOK, TellTyped
  <1>2. call'["registry"].at = "list" /\ call'["daemon"] = call["daemon"]
    BY DEF AsksNow, TypeOK, CallTyped, Callers, Call
  <1> QED
    BY <1>1, <1>2 DEF FeedOK, CallOK, ToldOK

LEMMA ApplyFeed ==
  ASSUME TypeOK, FeedOK, Ready, NEW n \in Note, Apply(n), UNCHANGED <<call, feed, daemon>>
  PROVE  FeedOK'
  <1>1. loop'.at = "idle" /\ loop.events = <<>> /\ daemon.at # "start" /\ past'.replayed = past.replayed
    BY DEF Ready, Apply, TypeOK, TellTyped, PastTyped
  <1>2. call["registry"].at = "none"
    BY DEF FeedOK, CallOK, Ready
  <1>3. CallOK'
    BY <1>1, <1>2 DEF FeedOK, CallOK
  <1> DEFINE F == Fold(Fold(daemon.seen, daemon.events), feed)
  <1>4. ToldOK'
    <2> SUFFICES ASSUME ~past.replayed PROVE Fold(F, loop'.events) = reg'.agents
      BY <1>1 DEF ToldOK
    <2>1. F = reg.agents
      BY <1>1, FoldOfNone DEF FeedOK, ToldOK
    <2> HIDE DEF F
    <2>2. CASE reg'.agents = reg.agents /\ loop'.events = <<>>
      BY <2>1, <2>2, FoldOfNone
    <2>3. CASE \E a \in Visible, b \in Agent :
              /\ a.key.pane = n.pane /\ b.key = a.key
              /\ reg'.agents = (reg.agents \ {a}) \cup {b}
              /\ loop'.events = EventsOf("changed", {b} \ reg.agents)
      <3>1. PICK a \in Visible, b \in Agent :
              /\ a.key.pane = n.pane /\ b.key = a.key
              /\ reg'.agents = (reg.agents \ {a}) \cup {b}
              /\ loop'.events = EventsOf("changed", {b} \ reg.agents)
        BY <2>3
      <3>2. a \in reg.agents /\ View(reg.agents)
        BY DEF Visible, TypeOK, TellTyped
      <3>3. CASE b \in reg.agents
        <4>1. b = a
          BY <3>1, <3>2, <3>3 DEF View, OnePerPane
        <4>2. reg'.agents = reg.agents /\ {b} \ reg.agents = {}
          BY <3>1, <3>2, <3>3, <4>1
        <4> QED
          BY <2>1, <3>1, <4>2, NoEvents, FoldOfNone
      <3>4. CASE b \notin reg.agents
        <4>1. {b} \ reg.agents = {b} /\ {b} \in SUBSET Agent /\ IsFiniteSet({b}) /\ Distinct({b})
          BY <3>4, FS_Singleton DEF Distinct
        <4>2. Fold(F, EventsOf("changed", {b})) = {d \in F : d.key \notin KeysOf({b})} \cup {b}
          BY <4>1, FoldEvents
        <4>3. {d \in F : d.key \notin KeysOf({b})} \cup {b} = (reg.agents \ {a}) \cup {b}
          BY <2>1, <3>1, <3>2, AfterChange
        <4> QED
          BY <3>1, <4>1, <4>2, <4>3
      <3> QED
        BY <3>3, <3>4
    <2> QED
      BY <2>2, <2>3, ApplyFacts DEF TypeOK
  <1> QED
    BY <1>3, <1>4 DEF FeedOK

LEMMA TakeFeed ==
  ASSUME TypeOK, FeedOK, Take
  PROVE  FeedOK'
  <1>1. Head(channel) \in Note
    BY HeadTailProperties DEF Take, TypeOK, WireTyped
  <1> QED
    BY <1>1, AsksFeed, ApplyFeed DEF Take

LEMMA TellFeed ==
  ASSUME TypeOK, FeedOK, Tell
  PROVE  FeedOK'
  <1>1. /\ loop.events \in Seq(Event) /\ loop.events # <<>> /\ feed \in Seq(Event)
        /\ loop'.at = "idle" /\ loop'.events = Tail(loop.events) /\ feed' = Append(feed, Head(loop.events))
        /\ UNCHANGED <<reg, call, daemon, past>>
    BY DEF Tell, TypeOK, TellTyped
  <1>2. daemon.at # "start" /\ call["registry"].at = "none"
    BY <1>1 DEF FeedOK, CallOK, Tell
  <1>3. CallOK'
    BY <1>1, <1>2 DEF FeedOK, CallOK
  <1>4. Fold(Fold(Fold(daemon.seen, daemon.events), feed'), loop'.events) =
          Fold(Fold(Fold(daemon.seen, daemon.events), feed), loop.events)
    BY <1>1, FoldPassed
  <1>5. ToldOK'
    BY <1>1, <1>4 DEF FeedOK, ToldOK
  <1> QED
    BY <1>3, <1>5 DEF FeedOK

LEMMA DispatchFeed ==
  ASSUME TypeOK, FeedOK, Dispatch
  PROVE  FeedOK'
  <1>1. /\ UNCHANGED <<reg, loop, call, past>>
        /\ daemon.events \in Seq(Event) /\ feed \in Seq(Event)
    BY DEF Dispatch, TypeOK, TellTyped
  <1>2. CASE daemon.at = "dispatch" /\ daemon.events = <<>>
    <2>1. daemon'.at = "idle" /\ daemon'.events = <<>> /\ daemon'.seen = daemon.seen /\ feed' = feed
      BY <1>2 DEF Dispatch, TypeOK, TellTyped
    <2> QED
      BY <1>1, <1>2, <2>1 DEF FeedOK, CallOK, ToldOK
  <1>3. CASE daemon.at = "dispatch" /\ daemon.events # <<>>
    <2>1. /\ daemon'.at = "dispatch" /\ daemon'.events = Tail(daemon.events) /\ feed' = feed
          /\ daemon'.seen = Hear(daemon.seen, Head(daemon.events))
      BY <1>3 DEF Dispatch, TypeOK, TellTyped
    <2>2. Fold(daemon'.seen, daemon'.events) = Fold(daemon.seen, daemon.events)
      BY <1>1, <1>3, <2>1, FoldHead
    <2> QED
      BY <1>1, <1>3, <2>1, <2>2 DEF FeedOK, CallOK, ToldOK
  <1>4. CASE daemon.at = "idle" /\ feed # <<>>
    <2>1. /\ daemon'.at = "idle" /\ daemon'.events = daemon.events /\ feed' = Tail(feed)
          /\ daemon'.seen = Hear(daemon.seen, Head(feed)) /\ daemon.events = <<>>
      BY <1>4 DEF Dispatch, FeedOK, CallOK, TypeOK, TellTyped
    <2>2. Fold(Fold(daemon'.seen, daemon'.events), feed') = Fold(Fold(daemon.seen, daemon.events), feed)
      BY <1>1, <1>4, <2>1, FoldHead, FoldOfNone
    <2> QED
      BY <1>1, <1>4, <2>1, <2>2 DEF FeedOK, CallOK, ToldOK
  <1> QED
    BY <1>2, <1>3, <1>4 DEF Dispatch

LEMMA ReplayFeed ==
  ASSUME TypeOK, FeedOK, Replay
  PROVE  FeedOK'
  <1>1. /\ UNCHANGED <<reg, loop, feed>> /\ daemon'.at = "replay" /\ past'.replayed
        /\ call'["registry"] = call["registry"]
    BY DEF Replay, TypeOK, TellTyped, PastTyped, CallTyped, Callers, Call
  <1> QED
    BY <1>1 DEF FeedOK, CallOK, ToldOK

---------------------------------------------------------------------------
(* Whoever is called gone is gone.                                         *)

LEMMA LateGrows ==
  ASSUME NEW q, NEW K, NEW L, LateIn(q, K), K \subseteq L
  PROVE  LateIn(q, L)
  BY DEF LateIn

LEMMA LateAppend ==
  ASSUME NEW q \in Seq(Note), NEW n \in Note, NEW K, LateIn(q, K), n.gone \subseteq K
  PROVE  LateIn(Append(q, n), K)
  <1>1. /\ Len(Append(q, n)) = Len(q) + 1 /\ Append(q, n)[Len(q) + 1] = n
        /\ \A i \in 1..Len(q) : Append(q, n)[i] = q[i]
    BY AppendProperties
  <1>2. Len(q) \in Nat
    BY LenProperties
  <1>3. ASSUME NEW i \in 1..Len(Append(q, n)) PROVE Append(q, n)[i].gone \subseteq K
    <2>1. i \in 1..Len(q) \/ i = Len(q) + 1
      BY <1>1, <1>2
    <2>2. CASE i \in 1..Len(q)
      <3>1. Append(q, n)[i] = q[i]
        BY <1>1, <2>2
      <3> QED
        BY <2>2, <3>1 DEF LateIn
    <2>3. CASE i = Len(q) + 1
      BY <1>1, <2>3
    <2> QED
      BY <2>1, <2>2, <2>3
  <1> QED
    BY <1>3 DEF LateIn

LEMMA LateTail ==
  ASSUME NEW q \in Seq(Note), q # <<>>, NEW K, LateIn(q, K)
  PROVE  LateIn(Tail(q), K) /\ Head(q).gone \subseteq K /\ Head(q) \in Note
  <1>1. /\ Len(Tail(q)) = Len(q) - 1 /\ Head(q) \in Note
        /\ \A i \in 1..Len(Tail(q)) : Tail(q)[i] = q[i + 1]
    BY HeadTailProperties
  <1>2. Len(q) \in Nat \ {0} /\ Head(q) = q[1]
    BY EmptySeq
  <1>3. ASSUME NEW i \in 1..Len(Tail(q)) PROVE Tail(q)[i].gone \subseteq K
    <2>1. i + 1 \in 1..Len(q) /\ Tail(q)[i] = q[i + 1]
      BY <1>1, <1>2
    <2> QED
      BY <2>1 DEF LateIn
  <1>4. Head(q).gone \subseteq K
    <2>1. 1 \in 1..Len(q)
      BY <1>2
    <2> QED
      BY <1>2, <2>1 DEF LateIn
  <1> QED
    BY <1>1, <1>3, <1>4 DEF LateIn

LEMMA LateCut ==
  ASSUME NEW q \in Seq(Note), NEW m \in 0..Len(q), NEW K, LateIn(q, K)
  PROVE  LateIn(SubSeq(q, 1, m), K)
  BY CutLine DEF LateIn

LEMMA LateHeard ==
  ASSUME NEW c \in Connection, NEW n \in Note, NEW K, LateIn(c.line, K), n.gone \subseteq K
  PROVE  LateIn(Heard(c, n).line, K)
  <1>1. /\ c.line \in Seq(Note)
        /\ Heard(c, n).line = IF Hears(c, n) THEN Append(c.line, n) ELSE c.line
    BY HeardTyped DEF Connection
  <1>2. LateIn(Append(c.line, n), K)
    BY <1>1, LateAppend
  <1>3. CASE Hears(c, n)
    BY <1>1, <1>2, <1>3
  <1>4. CASE ~Hears(c, n)
    BY <1>1, <1>4
  <1> QED
    BY <1>3, <1>4

(* After a notice of Herdr's, when those it calls gone are.                *)
LEMMA GonePushed ==
  ASSUME TypeOK, GoneOK, NEW n \in Note, Push(n), Dead \subseteq Dead', n.gone \subseteq Dead',
         KeysOf(herdr') \subseteq past'.ran,
         past'.told = past.told, past'.replayed = past.replayed, UNCHANGED Mine
  PROVE  GoneOK'
  <1>1. LateIn(conn.line, Dead') /\ LateIn(old.line, Dead') /\ LateIn(channel, Dead')
    BY LateGrows DEF GoneOK
  <1>2. conn \in Connection /\ old \in Connection
    BY DEF TypeOK, WireTyped
  <1>3. LateIn(Heard(conn, n).line, Dead') /\ LateIn(Heard(old, n).line, Dead')
    BY <1>1, <1>2, LateHeard
  <1>4. LateIn(conn'.line, Dead') /\ LateIn(old'.line, Dead')
    BY <1>3 DEF Push
  <1>5. past'.told \subseteq Dead'
    BY DEF GoneOK
  <1>6. channel' = channel /\ call' = call /\ reg' = reg
    BY DEF Mine
  <1> QED
    BY <1>1, <1>4, <1>5, <1>6 DEF GoneOK, KeysOf, Visible

LEMMA KeysWith ==
  ASSUME NEW S, NEW b
  PROVE  KeysOf(S \cup {b}) = KeysOf(S) \cup {b.key}
  BY DEF KeysOf

LEMMA AppearGone ==
  ASSUME TypeOK, GoneOK, NEW a \in Agents, Appear(a)
  PROVE  GoneOK'
  <1> DEFINE n == Notice("detected", a.key.pane, NoKey, Unknown, {})
  <1>1. a.key.pane \in Panes
    BY WorldAgent, FeedAssumption DEF Appear, TypeOK, HerdTyped
  <1>2. n \in Note /\ n.gone = {}
    BY <1>1, StructuralNote DEF Notice
  <1>3. Push(n)
    BY DEF Appear
  <1> HIDE DEF n
  <1>4. KeysOf(herdr') = KeysOf(herdr) \cup {a.key}
    <2>1. PICK b : b.key = a.key /\ herdr' = herdr \cup {b}
      BY DEF Appear
    <2> QED
      BY <2>1, KeysWith
  <1>5. past'.ran = past.ran \cup {a.key} /\ past'.told = past.told /\ past'.replayed = past.replayed
    BY DEF Appear, TypeOK, PastTyped
  <1>6. KeysOf(herdr) \subseteq past.ran /\ a.key \notin past.ran
    BY DEF GoneOK, Appear
  <1>7. KeysOf(herdr') \subseteq past'.ran /\ past'.ran \ KeysOf(herdr') = past.ran \ KeysOf(herdr)
    BY <1>4, <1>5, <1>6
  <1>8. Dead' = Dead
    BY <1>7 DEF Dead
  <1> QED
    BY <1>2, <1>3, <1>5, <1>7, <1>8, GonePushed DEF Appear

LEMMA KeysWithout ==
  ASSUME NEW S, View(S), NEW a \in S
  PROVE  KeysOf(S \ {a}) = KeysOf(S) \ {a.key}
  BY DEF View, OnePerPane, KeysOf

LEMMA LeaveGone ==
  ASSUME TypeOK, GoneOK, NEW a \in herdr, NEW kind \in {"released", "closed"}, Leave(a, kind)
  PROVE  GoneOK'
  <1> DEFINE n == Notice(kind, a.key.pane, NoKey, Unknown, {a.key})
  <1>1. a.key \in Key /\ View(herdr)
    BY DEF TypeOK, HerdTyped, Runner
  <1>2. n \in Note /\ n.gone = {a.key}
    BY <1>1, LeftNote DEF Notice
  <1>3. Push(n)
    BY DEF Leave
  <1> HIDE DEF n
  <1>4. KeysOf(herdr') = KeysOf(herdr) \ {a.key}
    BY <1>1, KeysWithout DEF Leave
  <1>5. past'.ran = past.ran /\ past'.told = past.told /\ past'.replayed = past.replayed
    BY DEF Leave, TypeOK, PastTyped
  <1>6. a.key \in KeysOf(herdr)
    BY DEF KeysOf
  <1>7. Dead' = Dead \cup {a.key} /\ KeysOf(herdr') \subseteq past'.ran
    BY <1>4, <1>5, <1>6 DEF Dead, GoneOK
  <1> QED
    BY <1>2, <1>3, <1>5, <1>7, GonePushed DEF Leave

LEMMA ReplaceGone ==
  ASSUME TypeOK, GoneOK, NEW a \in herdr, NEW b \in Agents, Replace(a, b)
  PROVE  GoneOK'
  <1> DEFINE n == Notice("updated", a.key.pane, b.key, a.status, {a.key})
  <1>1. /\ a.key \in Key /\ b.key \in Key /\ a.status \in LiveStatus
        /\ b.key.pane = a.key.pane /\ b.key \notin past.ran /\ View(herdr)
    BY ReplaceFacts DEF Replace, TypeOK, HerdTyped
  <1>2. a.key \in KeysOf(herdr) /\ a.key # b.key
    BY <1>1 DEF KeysOf, GoneOK
  <1>3. n \in Note /\ n.gone = {a.key}
    BY <1>1, <1>2, ReplacedNote DEF Notice
  <1>4. Push(n)
    BY DEF Replace
  <1> HIDE DEF n
  <1>5. KeysOf(herdr') = (KeysOf(herdr) \ {a.key}) \cup {b.key}
    <2> DEFINE c == [key |-> b.key, status |-> a.status, cwd |-> b.cwd, kind |-> b.kind]
    <2>1. c.key = b.key /\ herdr' = (herdr \ {a}) \cup {c}
      BY DEF Replace
    <2> HIDE DEF c
    <2>2. KeysOf(herdr \ {a}) = KeysOf(herdr) \ {a.key}
      BY <1>1, KeysWithout
    <2>3. KeysOf((herdr \ {a}) \cup {c}) = KeysOf(herdr \ {a}) \cup {c.key}
      BY KeysWith
    <2> QED
      BY <2>1, <2>2, <2>3
  <1>6. past'.ran = past.ran \cup {b.key} /\ past'.told = past.told /\ past'.replayed = past.replayed
    BY DEF Replace, TypeOK, PastTyped
  <1>7. Dead' = Dead \cup {a.key} /\ KeysOf(herdr') \subseteq past'.ran
    BY <1>1, <1>2, <1>5, <1>6 DEF Dead, GoneOK
  <1> QED
    BY <1>3, <1>4, <1>6, <1>7, GonePushed DEF Replace

LEMMA ChangeGone ==
  ASSUME TypeOK, GoneOK, NEW a \in herdr, NEW s \in LiveStatus, Change(a, s)
  PROVE  GoneOK'
  <1> DEFINE n == Notice("status", a.key.pane, NoKey, s, {})
             b == [a EXCEPT !.status = s]
  <1>1. a.key.pane \in Panes /\ b.key = a.key /\ herdr' = (herdr \ {a}) \cup {b}
    BY DEF TypeOK, HerdTyped, Runner, Panes, Change
  <1>2. n \in Note /\ n.gone = {}
    BY <1>1, StatusNote DEF Notice
  <1>3. Push(n)
    BY DEF Change
  <1> HIDE DEF n, b
  <1>4. KeysOf(herdr') = KeysOf(herdr)
    BY <1>1 DEF KeysOf
  <1>5. past'.ran = past.ran /\ past'.told = past.told /\ past'.replayed = past.replayed
    BY DEF Change, TypeOK, PastTyped
  <1>6. Dead' = Dead /\ KeysOf(herdr') \subseteq past'.ran
    BY <1>4, <1>5 DEF Dead, GoneOK
  <1> QED
    BY <1>2, <1>3, <1>5, <1>6, GonePushed DEF Change

LEMMA RenameGone ==
  ASSUME TypeOK, GoneOK, NEW p \in Panes, NEW m \in Name, Rename(p, m)
  PROVE  GoneOK'
  <1> DEFINE n == Notice("renamed", p, NoKey, Unknown, {})
  <1>1. n \in Note /\ n.gone = {}
    BY StructuralNote DEF Notice
  <1>2. Push(n)
    BY DEF Rename
  <1> HIDE DEF n
  <1>3. Dead' = Dead /\ KeysOf(herdr') \subseteq past'.ran
    BY DEF Dead, GoneOK, Rename, KeysOf
  <1> QED
    BY <1>1, <1>2, <1>3, GonePushed DEF Rename

LEMMA DropGone ==
  ASSUME TypeOK, GoneOK, Drop
  PROVE  GoneOK'
  <1>1. PICK m \in 0..Len(conn.line), n \in 0..Len(old.line) :
          /\ conn' = [up |-> FALSE, watch |-> conn.watch, line |-> SubSeq(conn.line, 1, m)]
          /\ old' = [up |-> FALSE, watch |-> old.watch, line |-> SubSeq(old.line, 1, n)]
    BY DEF Drop
  <1>2. conn.line \in Seq(Note) /\ old.line \in Seq(Note)
    BY DEF TypeOK, WireTyped, Connection
  <1>3. LateIn(SubSeq(conn.line, 1, m), Dead) /\ LateIn(SubSeq(old.line, 1, n), Dead)
    BY <1>2, LateCut DEF GoneOK
  <1>4. LateIn(conn'.line, Dead) /\ LateIn(old'.line, Dead)
    BY <1>1, <1>3
  <1>5. past'.ran = past.ran /\ past'.told = past.told /\ past'.replayed = past.replayed
    BY DEF Drop, TypeOK, PastTyped
  <1>6. herdr' = herdr /\ channel' = channel /\ call' = call /\ reg' = reg
    BY DEF Drop, Mine
  <1>7. Dead' = Dead
    BY <1>5, <1>6 DEF Dead, KeysOf
  <1> QED
    BY <1>4, <1>5, <1>6, <1>7 DEF GoneOK, KeysOf, Visible

(* The stream only hands on what it holds.                                 *)
LEMMA GoneRead ==
  ASSUME TypeOK, GoneOK, Stream,
         LateIn(conn'.line, Dead), LateIn(old'.line, Dead), LateIn(channel', Dead)
  PROVE  GoneOK'
  <1>1. /\ herdr' = herdr /\ call' = call /\ reg' = reg
        /\ past'.ran = past.ran /\ past'.told = past.told /\ past'.replayed = past.replayed
    BY StreamKeeps DEF Outside
  <1>2. Dead' = Dead
    BY <1>1 DEF Dead, KeysOf
  <1> QED
    BY <1>1, <1>2 DEF GoneOK, KeysOf, Visible

LEMMA NoneLate == \A K : LateIn(<<>>, K)
  BY DEF LateIn

LEMMA StreamGone ==
  ASSUME TypeOK, GoneOK, Stream
  PROVE  GoneOK'
  <1>1. /\ LateIn(conn.line, Dead) /\ LateIn(old.line, Dead) /\ LateIn(channel, Dead)
        /\ conn \in Connection /\ old \in Connection /\ channel \in Seq(Note) /\ PastTyped
        /\ conn.line \in Seq(Note) /\ old.line \in Seq(Note)
    BY DEF GoneOK, TypeOK, WireTyped, Connection
  <1>2. LateIn(Subscribed.line, Dead) /\ LateIn(Nowhere.line, Dead)
    BY NoneLate DEF Subscribed, Nowhere
  <1>3. CASE Dial
    BY <1>1, <1>2, <1>3, GoneRead DEF Dial
  <1>4. CASE Resubscribe
    BY <1>1, <1>2, <1>4, GoneRead DEF Resubscribe
  <1>5. CASE Retry
    BY <1>1, <1>5, GoneRead DEF Retry
  <1>6. CASE Read
    <2>1. conn.line # <<>> /\ conn'.line = Tail(conn.line) /\ old' = old /\ channel' = Append(channel, Head(conn.line))
      BY <1>1, <1>6 DEF Read, Emit, Connection
    <2>2. LateIn(Tail(conn.line), Dead) /\ Head(conn.line).gone \subseteq Dead /\ Head(conn.line) \in Note
      BY <1>1, <2>1, LateTail
    <2>3. LateIn(Append(channel, Head(conn.line)), Dead)
      BY <1>1, <2>2, LateAppend
    <2> QED
      BY <1>1, <2>1, <2>2, <2>3, GoneRead
  <1>7. CASE DrainRead
    <2>1. old.line # <<>> /\ old'.line = Tail(old.line) /\ conn' = conn /\ channel' = Append(channel, Head(old.line))
      BY <1>1, <1>7 DEF DrainRead, Emit, Connection
    <2>2. LateIn(Tail(old.line), Dead) /\ Head(old.line).gone \subseteq Dead /\ Head(old.line) \in Note
      BY <1>1, <2>1, LateTail
    <2>3. LateIn(Append(channel, Head(old.line)), Dead)
      BY <1>1, <2>2, LateAppend
    <2> QED
      BY <1>1, <2>1, <2>2, <2>3, GoneRead
  <1>8. CASE DrainEnds
    BY <1>1, <1>2, <1>8, GoneRead DEF DrainEnds
  <1>9. CASE Reset
    <2> DEFINE n == Notice("reset", Unknown, NoKey, Unknown, {})
    <2>1. n \in Note /\ n.gone \subseteq Dead
      BY ResetNote DEF Notice
    <2>2. channel' = Append(channel, n)
      BY <1>9 DEF Reset, Emit
    <2> HIDE DEF n
    <2>3. LateIn(Append(channel, n), Dead)
      BY <1>1, <2>1, LateAppend
    <2> QED
      BY <1>1, <1>2, <1>9, <2>2, <2>3, GoneRead DEF Reset
  <1>10. CASE Pause
    BY <1>1, <1>10, GoneRead DEF Pause
  <1> QED
    BY <1>3, <1>4, <1>5, <1>6, <1>7, <1>8, <1>9, <1>10 DEF Stream

(* What lies in the lines, and who runs, is not changed by the others.     *)
LEMMA GoneElsewhere ==
  ASSUME GoneOK, UNCHANGED <<herdr, conn, old>>, past'.ran = past.ran, past'.told \subseteq Dead,
         LateIn(channel', Dead),
         ~past'.replayed =>
           /\ \A c \in Callers : call'[c].at \in {"labels", "apply"} => KeysOf(call'[c].agents) \cap past'.told = {}
           /\ KeysOf(Visible') \cap past'.told = {}
  PROVE  GoneOK'
  <1>1. Dead' = Dead
    BY DEF Dead, KeysOf
  <1> QED
    BY <1>1 DEF GoneOK, KeysOf

LEMMA ListingGone ==
  ASSUME TypeOK, GoneOK, NEW c \in Callers, Listing(c)
  PROVE  GoneOK'
  <1>1. UNCHANGED <<herdr, conn, old, channel, past>> /\ LateIn(channel, Dead) /\ past.told \subseteq Dead
    BY DEF Listing, List, Labels, CallFails, ApplySnapshot, Watch, Others, GoneOK
  <1> SUFFICES ASSUME ~past.replayed
               PROVE  /\ \A d \in Callers : call'[d].at \in {"labels", "apply"} =>
                           KeysOf(call'[d].agents) \cap past.told = {}
                      /\ KeysOf(Visible') \cap past.told = {}
    BY <1>1, GoneElsewhere
  <1>2. /\ \A d \in Callers : call[d].at \in {"labels", "apply"} => KeysOf(call[d].agents) \cap past.told = {}
        /\ KeysOf(Visible) \cap past.told = {}
    BY DEF GoneOK
  <1>3. CASE List(c)
    <2>1. KeysOf(herdr) \cap past.told = {}
      BY <1>1 DEF Dead
    <2>2. reg' = reg
      BY <1>3 DEF List
    <2> QED
      BY <1>2, <1>3, <2>1, <2>2 DEF List, TypeOK, CallTyped, Visible, KeysOf, Call
  <1>4. CASE Labels(c)
    <2> DEFINE W == {Named(a) : a \in call[c].agents}
    <2>1. KeysOf(W) = KeysOf(call[c].agents) /\ call[c].at = "labels" /\ reg' = reg
      BY <1>4, LabelsTyped DEF Labels
    <2>2. call' = [call EXCEPT ![c] = [at |-> "apply", agents |-> W]]
      BY <1>4 DEF Labels, TypeOK, CallTyped, Call
    <2> HIDE DEF W
    <2>3. ASSUME NEW d \in Callers, call'[d].at \in {"labels", "apply"}
          PROVE  KeysOf(call'[d].agents) \cap past.told = {}
      <3>1. CASE d = c
        BY <1>2, <2>1, <2>2, <3>1 DEF TypeOK, CallTyped, Call
      <3>2. CASE d # c
        BY <1>2, <2>2, <2>3, <3>2 DEF TypeOK, CallTyped, Call
      <3> QED
        BY <3>1, <3>2
    <2> QED
      BY <1>2, <2>1, <2>3 DEF Visible, KeysOf
  <1>5. CASE CallFails(c) \/ Watch(c)
    <2>1. call' = [call EXCEPT ![c] = NoCall] /\ reg' = reg
      BY <1>5 DEF CallFails, Watch, Ends
    <2>2. ASSUME NEW d \in Callers, call'[d].at \in {"labels", "apply"}
          PROVE  KeysOf(call'[d].agents) \cap past.told = {}
      BY <1>2, <2>1, <2>2 DEF TypeOK, CallTyped, NoCall, Call
    <2> QED
      BY <1>2, <2>1, <2>2 DEF Visible, KeysOf
  <1>6. CASE ApplySnapshot(c)
    <2>1. call[c].at = "apply" /\ reg'.agents = call[c].agents /\ reg'.retired = {}
      BY <1>6 DEF ApplySnapshot
    <2>2. KeysOf(Visible') \cap past.told = {}
      BY <1>2, <2>1 DEF Visible, KeysOf
    <2>3. call' = [call EXCEPT ![c].at = "watch"]
      BY <1>6 DEF ApplySnapshot
    <2>4. ASSUME NEW d \in Callers, call'[d].at \in {"labels", "apply"}
          PROVE  KeysOf(call'[d].agents) \cap past.told = {}
      <3>1. d # c
        BY <2>3, <2>4 DEF TypeOK, CallTyped, Call
      <3> QED
        BY <1>2, <2>3, <2>4, <3>1 DEF TypeOK, CallTyped, Call
    <2> QED
      BY <2>2, <2>4
  <1> QED
    BY <1>3, <1>4, <1>5, <1>6 DEF Listing

LEMMA AsksGone ==
  ASSUME TypeOK, GoneOK, AsksNow, UNCHANGED <<herdr, conn, old, reg, past>>, LateIn(channel', Dead)
  PROVE  GoneOK'
  <1>1. ASSUME NEW d \in Callers, call'[d].at \in {"labels", "apply"}
        PROVE  call'[d] = call[d]
    BY <1>1 DEF AsksNow, TypeOK, CallTyped, Callers, Call
  <1>2. past.told \subseteq Dead
    BY DEF GoneOK
  <1>3. Visible' = Visible
    BY DEF Visible
  <1>4. ~past'.replayed =>
           /\ \A c \in Callers : call'[c].at \in {"labels", "apply"} => KeysOf(call'[c].agents) \cap past'.told = {}
           /\ KeysOf(Visible') \cap past'.told = {}
    BY <1>1, <1>3 DEF GoneOK
  <1> QED
    BY <1>2, <1>4, GoneElsewhere

LEMMA ApplyKeys ==
  ASSUME TellTyped, NEW n \in Note, Apply(n)
  PROVE  KeysOf(reg'.agents) = KeysOf(reg.agents)
  <1>1. CASE reg'.agents = reg.agents
    BY <1>1
  <1>2. CASE \E a \in Visible, b \in Agent : b.key = a.key /\ reg'.agents = (reg.agents \ {a}) \cup {b}
    BY <1>2 DEF Visible, KeysOf
  <1> QED
    BY <1>1, <1>2, ApplyFacts

LEMMA ApplyGone ==
  ASSUME TypeOK, CallOK, GoneOK, Ready, NEW n \in Note, n.gone \subseteq Dead, Apply(n),
         UNCHANGED <<herdr, conn, old, call, daemon>>, LateIn(channel', Dead)
  PROVE  GoneOK'
  <1>1. /\ past'.told = past.told \cup n.gone /\ past'.ran = past.ran /\ past'.replayed = past.replayed
        /\ past.told \subseteq Dead
    BY DEF Apply, TypeOK, PastTyped, GoneOK
  <1>2. reg'.retired = reg.retired \cup (IF Retires(n) THEN Retire(n.pane) ELSE {})
    BY DEF Apply, TypeOK, TellTyped
  <1> SUFFICES ASSUME ~past.replayed
               PROVE  /\ \A c \in Callers : call[c].at \notin {"labels", "apply"}
                      /\ KeysOf(Visible') \cap past'.told = {}
    BY <1>1, GoneElsewhere
  <1>3. \A c \in Callers : call[c].at = "none"
    BY DEF CallOK, Ready, Callers
  <1>4. ASSUME NEW k \in KeysOf(Visible') PROVE k \notin past'.told
    <2>1. k \in KeysOf(reg.agents) /\ k \notin reg'.retired
      BY ApplyKeys DEF KeysOf, Visible, TypeOK
    <2>2. PICK a \in reg.agents : a.key = k
      BY <2>1 DEF KeysOf
    <2>3. k \in KeysOf(Visible)
      BY <1>2, <2>1, <2>2 DEF Visible, KeysOf
    <2>4. k \notin past.told
      BY <2>3 DEF GoneOK
    <2>5. ASSUME k \in n.gone PROVE FALSE
      <3>1. n.kind \in {"released", "closed", "updated"} /\ k.pane = n.pane
        BY <2>5 DEF Note
      <3>2. k \in Retire(n.pane)
        BY <2>2, <3>1 DEF Retire, InPane
      <3>3. ~Retires(n)
        BY <1>2, <2>1, <3>2
      <3>4. n.kind = "updated" /\ n.key \in KeysOf(reg.agents)
        BY <3>1, <3>3 DEF Retires, Replaced
      <3>5. PICK b \in reg.agents : b.key = n.key
        BY <3>4 DEF KeysOf
      <3>6. n.key.pane = n.pane /\ n.key \notin n.gone
        BY <3>4 DEF Note
      <3>7. a = b
        BY <2>2, <3>1, <3>5, <3>6 DEF TypeOK, TellTyped, View, OnePerPane
      <3> QED
        BY <2>2, <2>5, <3>5, <3>6, <3>7
    <2> QED
      BY <1>1, <2>4, <2>5
  <1> QED
    BY <1>3, <1>4

LEMMA TakeGone ==
  ASSUME TypeOK, CallOK, GoneOK, Take
  PROVE  GoneOK'
  <1>1. channel \in Seq(Note) /\ channel # <<>> /\ LateIn(channel, Dead)
    BY DEF Take, TypeOK, WireTyped, GoneOK
  <1>2. LateIn(Tail(channel), Dead) /\ Head(channel).gone \subseteq Dead /\ Head(channel) \in Note
    BY <1>1, LateTail
  <1>3. LateIn(channel', Dead)
    BY <1>2 DEF Take
  <1> QED
    BY <1>2, <1>3, AsksGone, ApplyGone DEF Take

LEMMA SnapshotGone ==
  ASSUME TypeOK, GoneOK, NEW why, Snapshot(why)
  PROVE  GoneOK'
  BY AsksGone DEF Snapshot, GoneOK

LEMMA TellGone ==
  ASSUME TypeOK, GoneOK, Tell \/ Dispatch
  PROVE  GoneOK'
  <1>1. UNCHANGED <<herdr, conn, old, channel, call, reg, past>>
    BY DEF Tell, Dispatch
  <1>2. Visible' = Visible
    BY <1>1 DEF Visible
  <1> QED
    BY <1>1, <1>2, GoneElsewhere DEF GoneOK

LEMMA ReplayGone ==
  ASSUME TypeOK, GoneOK, Replay
  PROVE  GoneOK'
  <1>1. UNCHANGED <<herdr, conn, old, channel>> /\ past'.ran = past.ran /\ past'.told = past.told /\ past'.replayed
    BY DEF Replay, TypeOK, PastTyped
  <1> QED
    BY <1>1, GoneElsewhere DEF GoneOK

LEMMA StutterGone ==
  ASSUME GoneOK, UNCHANGED vars
  PROVE  GoneOK'
  <1>1. Visible' = Visible
    BY DEF vars, Visible
  <1> QED
    BY <1>1, GoneElsewhere DEF GoneOK, vars

---------------------------------------------------------------------------
(* What a line says of a pane.                                             *)

LEMMA NothingSaid ==
  ASSUME NEW p, NEW s
  PROVE  Silent(<<>>, p) /\ ~Says(<<>>, p, s)
  BY DEF Silent, Says

LEMMA Appended ==
  ASSUME NEW q \in Seq(Note), NEW n \in Note
  PROVE  /\ Len(q) \in Nat /\ Len(Append(q, n)) = Len(q) + 1 /\ Append(q, n)[Len(q) + 1] = n
         /\ \A i \in 1..Len(q) : i \in 1..Len(Append(q, n)) /\ Append(q, n)[i] = q[i]
         /\ \A i \in 1..Len(Append(q, n)) : i \in 1..Len(q) \/ i = Len(q) + 1
  BY LenProperties, AppendProperties

LEMMA SilentOther ==
  ASSUME NEW q \in Seq(Note), NEW n \in Note, NEW p, ~OfPane(n, p), Silent(q, p)
  PROVE  Silent(Append(q, n), p)
  <1>1. ASSUME NEW i \in 1..Len(Append(q, n)) PROVE ~OfPane(Append(q, n)[i], p)
    <2>1. CASE i \in 1..Len(q)
      <3>1. Append(q, n)[i] = q[i]
        BY <2>1, Appended
      <3> QED
        BY <2>1, <3>1 DEF Silent
    <2>2. CASE i = Len(q) + 1
      <3>1. Append(q, n)[i] = n
        BY <2>2, Appended
      <3> QED
        BY <3>1
    <2> QED
      BY <2>1, <2>2, Appended
  <1> QED
    BY <1>1 DEF Silent

LEMMA SaysOther ==
  ASSUME NEW q \in Seq(Note), NEW n \in Note, NEW p, NEW s, ~OfPane(n, p), Says(q, p, s)
  PROVE  Says(Append(q, n), p, s)
  <1>1. PICK i \in 1..Len(q) : /\ OfPane(q[i], p) /\ q[i].status = s
                               /\ \A j \in 1..Len(q) : j > i => ~OfPane(q[j], p)
    BY DEF Says
  <1>2. ASSUME NEW j \in 1..Len(Append(q, n)), j > i PROVE ~OfPane(Append(q, n)[j], p)
    <2>1. CASE j \in 1..Len(q)
      <3>1. Append(q, n)[j] = q[j]
        BY <2>1, Appended
      <3> QED
        BY <1>1, <1>2, <2>1, <3>1
    <2>2. CASE j = Len(q) + 1
      <3>1. Append(q, n)[j] = n
        BY <2>2, Appended
      <3> QED
        BY <3>1
    <2> QED
      BY <2>1, <2>2, Appended
  <1>3. i \in 1..Len(Append(q, n)) /\ Append(q, n)[i] = q[i]
    BY Appended
  <1> QED
    BY <1>1, <1>2, <1>3 DEF Says

LEMMA SaysIt ==
  ASSUME NEW q \in Seq(Note), NEW n \in Note, NEW p, OfPane(n, p)
  PROVE  Says(Append(q, n), p, n.status)
  <1>1. Len(q) \in Nat /\ Len(Append(q, n)) = Len(q) + 1 /\ Append(q, n)[Len(q) + 1] = n
    BY Appended
  <1> DEFINE m == Len(q) + 1
  <1>2. m \in 1..Len(Append(q, n)) /\ Append(q, n)[m] = n /\ \A j \in 1..Len(Append(q, n)) : ~(j > m)
    BY <1>1
  <1> HIDE DEF m
  <1> QED
    BY <1>2 DEF Says

LEMMA SilentTail ==
  ASSUME NEW q \in Seq(Note), q # <<>>, NEW p, Silent(q, p)
  PROVE  Silent(Tail(q), p) /\ ~OfPane(Head(q), p)
  <1>1. /\ Len(Tail(q)) = Len(q) - 1 /\ \A i \in 1..Len(Tail(q)) : Tail(q)[i] = q[i + 1]
        /\ Len(q) \in Nat \ {0} /\ Head(q) = q[1]
    BY HeadTailProperties, EmptySeq
  <1>2. \A i \in 1..Len(Tail(q)) : i + 1 \in 1..Len(q)
    BY <1>1
  <1>3. Silent(Tail(q), p)
    BY <1>1, <1>2 DEF Silent
  <1>4. 1 \in 1..Len(q)
    BY <1>1
  <1> QED
    BY <1>1, <1>3, <1>4 DEF Silent

LEMMA SaysTail ==
  ASSUME NEW q \in Seq(Note), q # <<>>, NEW p, NEW s, Says(q, p, s)
  PROVE  Says(Tail(q), p, s) \/ (Silent(Tail(q), p) /\ OfPane(Head(q), p) /\ Head(q).status = s)
  <1>1. /\ Len(Tail(q)) = Len(q) - 1 /\ \A i \in 1..Len(Tail(q)) : Tail(q)[i] = q[i + 1]
        /\ Len(q) \in Nat \ {0} /\ Head(q) = q[1]
    BY HeadTailProperties, EmptySeq
  <1>2. PICK i \in 1..Len(q) : /\ OfPane(q[i], p) /\ q[i].status = s
                               /\ \A j \in 1..Len(q) : j > i => ~OfPane(q[j], p)
    BY DEF Says
  <1>3. \A j \in 1..Len(Tail(q)) : j + 1 \in 1..Len(q) /\ Tail(q)[j] = q[j + 1]
    BY <1>1
  <1>4. CASE i = 1
    <2>1. ASSUME NEW j \in 1..Len(Tail(q)) PROVE ~OfPane(Tail(q)[j], p)
      <3>1. j + 1 \in 1..Len(q) /\ Tail(q)[j] = q[j + 1] /\ j + 1 > i
        BY <1>3, <1>4
      <3> QED
        BY <1>2, <3>1
    <2> QED
      BY <1>1, <1>2, <1>4, <2>1 DEF Silent
  <1>5. CASE i # 1
    <2> DEFINE m == i - 1
    <2>1. m \in 1..Len(Tail(q)) /\ m + 1 = i
      BY <1>1, <1>5
    <2>2. ASSUME NEW j \in 1..Len(Tail(q)), j > m PROVE ~OfPane(Tail(q)[j], p)
      <3>1. j + 1 \in 1..Len(q) /\ Tail(q)[j] = q[j + 1] /\ j + 1 > i
        BY <1>3, <2>1, <2>2
      <3> QED
        BY <1>2, <3>1
    <2>3. Tail(q)[m] = q[i]
      BY <1>3, <2>1
    <2> HIDE DEF m
    <2>4. OfPane(Tail(q)[m], p) /\ Tail(q)[m].status = s
      BY <1>2, <2>3
    <2> QED
      BY <2>1, <2>2, <2>4 DEF Says
  <1> QED
    BY <1>4, <1>5

LEMMA SilentCut ==
  ASSUME NEW q \in Seq(Note), NEW m \in 0..Len(q), NEW p, Silent(q, p)
  PROVE  Silent(SubSeq(q, 1, m), p)
  BY CutLine DEF Silent

(* What was last said of a pane, in a line or before it.                   *)
Rest(q, last, p, s) == Says(q, p, s) \/ (Silent(q, p) /\ last = s)

LEMMA BringsRest ==
  ASSUME NEW new, NEW prev, NEW last, NEW p, NEW s
  PROVE  /\ Brings(new, prev, last, p, s) <=> Says(new, p, s) \/ (Silent(new, p) /\ Rest(prev, last, p, s))
         /\ Brings(<<>>, prev, last, p, s) <=> Rest(prev, last, p, s)
         /\ Brings(new, <<>>, last, p, s) <=> Rest(new, last, p, s)
  BY NothingSaid DEF Brings, Rest

LEMMA HeardOther ==
  ASSUME NEW c \in Connection, NEW n \in Note, NEW p, NEW s, ~OfPane(n, p)
  PROVE  /\ Silent(c.line, p) => Silent(Heard(c, n).line, p)
         /\ Says(c.line, p, s) => Says(Heard(c, n).line, p, s)
  <1>1. /\ c.line \in Seq(Note)
        /\ Heard(c, n).line = IF Hears(c, n) THEN Append(c.line, n) ELSE c.line
    BY HeardTyped DEF Connection
  <1>2. CASE Hears(c, n)
    BY <1>1, <1>2, SilentOther, SaysOther
  <1>3. CASE ~Hears(c, n)
    BY <1>1, <1>3
  <1> QED
    BY <1>2, <1>3

LEMMA BringsOther ==
  ASSUME WireTyped, NEW n \in Note, Push(n), NEW p, NEW s, NEW last, ~OfPane(n, p),
         Brings(conn.line, old.line, last, p, s)
  PROVE  Brings(conn'.line, old'.line, last, p, s)
  <1>1. conn \in Connection /\ old \in Connection /\ conn' = Heard(conn, n) /\ old' = Heard(old, n)
    BY DEF WireTyped, Push
  <1>2. /\ Silent(conn.line, p) => Silent(conn'.line, p)
        /\ Says(conn.line, p, s) => Says(conn'.line, p, s)
    BY <1>1, HeardOther
  <1>3. /\ Silent(old.line, p) => Silent(old'.line, p)
        /\ Says(old.line, p, s) => Says(old'.line, p, s)
    BY <1>1, HeardOther
  <1> QED
    BY <1>2, <1>3 DEF Brings

(* The stream hands on the head of a line.                                 *)
LEMMA RestEmitted ==
  ASSUME PastTyped, NEW q \in Seq(Note), q # <<>>, Emit(Head(q)), NEW p \in Panes, NEW s,
         Rest(q, past.emitted[p], p, s)
  PROVE  Rest(Tail(q), past'.emitted[p], p, s)
  <1>1. Head(q) \in Note
    BY HeadTailProperties
  <1>2. CASE OfPane(Head(q), p)
    <2>1. past'.emitted[p] = Head(q).status
      BY <1>1, <1>2 DEF Emit, OfPane, PastTyped
    <2>2. Says(q, p, s)
      BY <1>2, SilentTail DEF Rest
    <2> QED
      BY <2>1, <2>2, SaysTail DEF Rest
  <1>3. CASE ~OfPane(Head(q), p)
    <2>1. past'.emitted[p] = past.emitted[p]
      <3>1. CASE Head(q).kind = "status"
        <4>1. Head(q).pane # p /\ Head(q).pane \in Panes
          BY <1>1, <1>3, <3>1 DEF OfPane, Note
        <4> QED
          BY <3>1, <4>1 DEF Emit, PastTyped
      <3>2. CASE Head(q).kind # "status"
        BY <3>2 DEF Emit
      <3> QED
        BY <3>1, <3>2
    <2> QED
      BY <1>3, <2>1, SilentTail, SaysTail DEF Rest
  <1> QED
    BY <1>2, <1>3

---------------------------------------------------------------------------
(* The lines are in order.                                                 *)

LEMMA NotNowhere == ~Nowhere.up /\ Nowhere.watch = {} /\ Nowhere.line = <<>>
  BY DEF Nowhere

LEMMA HeardNowhere ==
  ASSUME NEW c, c = Nowhere, NEW n
  PROVE  Heard(c, n) = Nowhere
  BY NotNowhere DEF Heard, Hears

LEMMA LinePushed ==
  ASSUME WireTyped, LineOK, NEW n \in Note, Push(n), UNCHANGED Mine
  PROVE  LineOK'
  <1>1. /\ conn \in Connection /\ old \in Connection /\ conn' = Heard(conn, n) /\ old' = Heard(old, n)
        /\ stream' = stream
    BY DEF WireTyped, Push, Mine
  <1>2. /\ conn'.up = conn.up /\ conn'.watch = conn.watch /\ old'.up = old.up
        /\ conn'.line = IF Hears(conn, n) THEN Append(conn.line, n) ELSE conn.line
    BY <1>1, HeardTyped
  <1>3. (conn = Nowhere => conn' = Nowhere) /\ (old = Nowhere => old' = Nowhere)
    BY <1>1, HeardNowhere
  <1>4. ASSUME NEW p \in Panes \ conn.watch PROVE Silent(conn'.line, p)
    <2>1. Silent(conn.line, p)
      BY DEF LineOK
    <2>2. CASE Hears(conn, n)
      <3>1. ~OfPane(n, p)
        BY <2>2 DEF Hears, OfPane
      <3> QED
        BY <1>1, <2>1, <3>1, HeardOther
    <2>3. CASE ~Hears(conn, n)
      BY <1>2, <2>1, <2>3
    <2> QED
      BY <2>2, <2>3
  <1> QED
    BY <1>1, <1>2, <1>3, <1>4 DEF LineOK

(* A step that is told of by a notice.                                     *)
LEMMA HerdrPushes ==
  ASSUME TypeOK, GoneOK, Herdr, ~Drop
  PROVE  \E n \in Note : Push(n)
  <1>1. CASE \E a \in Agents : Appear(a)
    <2>1. PICK a \in Agents : Appear(a)
      BY <1>1
    <2>2. a.key.pane \in Panes
      BY <2>1, WorldAgent DEF Appear, TypeOK, HerdTyped
    <2> QED
      BY <2>1, <2>2, StructuralNote DEF Appear
  <1>2. CASE \E a \in herdr : \E kind \in {"released", "closed"} : Leave(a, kind)
    <2>1. PICK a \in herdr, kind \in {"released", "closed"} : Leave(a, kind)
      BY <1>2
    <2>2. a.key \in Key
      BY DEF TypeOK, HerdTyped, Runner
    <2> QED
      BY <2>1, <2>2, LeftNote DEF Leave
  <1>3. CASE \E a \in herdr : \E b \in Agents : Replace(a, b)
    <2>1. PICK a \in herdr, b \in Agents : Replace(a, b)
      BY <1>3
    <2>2. a.key \in Key /\ b.key \in Key /\ a.status \in LiveStatus
      BY <2>1, ReplaceFacts
    <2>3. a.key # b.key /\ b.key.pane = a.key.pane
      BY <2>1 DEF Replace, GoneOK, KeysOf
    <2> QED
      BY <2>1, <2>2, <2>3, ReplacedNote DEF Replace
  <1>4. CASE \E a \in herdr : \E s \in LiveStatus : Change(a, s)
    <2>1. PICK a \in herdr, s \in LiveStatus : Change(a, s)
      BY <1>4
    <2>2. a.key.pane \in Panes
      BY DEF TypeOK, HerdTyped, Runner, Panes
    <2> QED
      BY <2>1, <2>2, StatusNote DEF Change
  <1>5. CASE \E p \in Panes, n \in Name : Rename(p, n)
    BY <1>5, StructuralNote DEF Rename
  <1> QED
    BY <1>1, <1>2, <1>3, <1>4, <1>5 DEF Herdr

LEMMA CutNone == \A m \in 0..Len(<<>>) : SubSeq(<<>>, 1, m) = <<>>
  <1>1. ASSUME NEW m \in 0..Len(<<>>) PROVE SubSeq(<<>>, 1, m) = <<>>
    <2>1. m = 0
      OBVIOUS
    <2> QED
      BY <2>1, SubSeqEmpty
  <1> QED
    BY <1>1

LEMMA DropLine ==
  ASSUME TypeOK, LineOK, Drop
  PROVE  LineOK'
  <1>1. PICK m \in 0..Len(conn.line), n \in 0..Len(old.line) :
          /\ conn' = [up |-> FALSE, watch |-> conn.watch, line |-> SubSeq(conn.line, 1, m)]
          /\ old' = [up |-> FALSE, watch |-> old.watch, line |-> SubSeq(old.line, 1, n)]
    BY DEF Drop
  <1>2. conn.line \in Seq(Note) /\ conn.up /\ conn # Nowhere /\ stream' = stream
    BY NotNowhere DEF TypeOK, WireTyped, Connection, Drop, Mine
  <1>3. ASSUME old = Nowhere PROVE old' = Nowhere
    <2>1. old.line = <<>> /\ old.watch = {}
      BY <1>3, NotNowhere
    <2>2. SubSeq(old.line, 1, n) = <<>>
      BY <2>1, CutNone
    <2> QED
      BY <1>1, <2>1, <2>2 DEF Nowhere
  <1>4. ~old'.up /\ conn'.watch = conn.watch /\ conn'.line = SubSeq(conn.line, 1, m)
    BY <1>1
  <1>5. \A p \in Panes \ conn.watch : Silent(conn'.line, p)
    BY <1>2, <1>4, SilentCut DEF LineOK
  <1> QED
    BY <1>2, <1>3, <1>4, <1>5 DEF LineOK

LEMMA HerdrLine ==
  ASSUME TypeOK, GoneOK, LineOK, Herdr
  PROVE  LineOK'
  <1>1. CASE Drop
    BY <1>1, DropLine
  <1>2. CASE ~Drop
    BY <1>2, HerdrPushes, HerdrKeeps, LinePushed DEF TypeOK
  <1> QED
    BY <1>1, <1>2

LEMMA StreamLine ==
  ASSUME TypeOK, LineOK, Stream
  PROVE  LineOK'
  <1>1. /\ conn \in Connection /\ old \in Connection /\ conn.line \in Seq(Note) /\ old.line \in Seq(Note)
        /\ stream.at \in {"dial", "serve", "pause", "drain"}
    BY DEF TypeOK, WireTyped, Connection
  <1>2. /\ \A p : Silent(<<>>, p)
        /\ Subscribed.up /\ Subscribed.line = <<>> /\ ~Nowhere.up /\ Nowhere.line = <<>>
    BY NothingSaid, NotNowhere DEF Subscribed
  <1>3. CASE Dial
    <2>1. stream.at = "dial" /\ old' = old /\ old = Nowhere
      BY <1>3 DEF Dial, LineOK
    <2>2. CASE conn' = Subscribed /\ stream' = [stream EXCEPT !.at = "serve"]
      <3>1. stream'.at = "serve"
        BY <2>2 DEF TypeOK, WireTyped
      <3> QED
        BY <1>2, <2>1, <2>2, <3>1 DEF LineOK
    <2>3. CASE stream' = [stream EXCEPT !.at = "pause"] /\ conn' = conn
      <3>1. stream'.at = "pause"
        BY <2>3 DEF TypeOK, WireTyped
      <3> QED
        BY <2>1, <2>3, <3>1 DEF LineOK
    <2> QED
      BY <1>3, <2>2, <2>3 DEF Dial
  <1>4. CASE Resubscribe
    <2>1. stream.at = "serve"
      BY <1>4 DEF Resubscribe
    <2>2. CASE conn' = Subscribed /\ old' = conn /\ stream' = [stream EXCEPT !.at = "drain", !.changed = FALSE]
      <3>1. stream'.at = "drain"
        BY <2>2 DEF TypeOK, WireTyped
      <3> QED
        BY <1>2, <2>2, <3>1 DEF LineOK
    <2>3. CASE stream' = [stream EXCEPT !.changed = FALSE, !.retry = TRUE] /\ conn' = conn /\ old' = old
      <3>1. stream'.at = stream.at
        BY <2>3 DEF TypeOK, WireTyped
      <3> QED
        BY <2>3, <3>1 DEF LineOK
    <2> QED
      BY <1>4, <2>2, <2>3 DEF Resubscribe
  <1>5. CASE Retry
    <2>1. stream'.at = stream.at /\ conn' = conn /\ old' = old
      BY <1>5 DEF Retry, TypeOK, WireTyped
    <2> QED
      BY <2>1 DEF LineOK
  <1>6. CASE Read
    <2>1. /\ stream.at = "serve" /\ stream' = stream /\ old' = old /\ conn.line # <<>>
          /\ conn'.up = conn.up /\ conn'.watch = conn.watch /\ conn'.line = Tail(conn.line)
      BY <1>1, <1>6 DEF Read, Connection
    <2>2. \A p \in Panes \ conn.watch : Silent(conn'.line, p)
      BY <1>1, <2>1, SilentTail DEF LineOK
    <2> QED
      BY <2>1, <2>2 DEF LineOK
  <1>7. CASE DrainRead
    <2>1. stream.at = "drain" /\ stream' = stream /\ conn' = conn /\ old'.up = old.up
      BY <1>1, <1>7 DEF DrainRead, Connection
    <2> QED
      BY <2>1 DEF LineOK
  <1>8. CASE DrainEnds
    <2>1. stream'.at = "serve" /\ conn' = conn /\ old' = Nowhere
      BY <1>8 DEF DrainEnds, TypeOK, WireTyped
    <2> QED
      BY <1>2, <2>1 DEF LineOK
  <1>9. CASE Reset
    <2>1. stream.at = "serve" /\ stream'.at = "pause" /\ conn' = Nowhere /\ old' = old
      BY <1>9 DEF Reset, TypeOK, WireTyped
    <2> QED
      BY <1>2, <2>1 DEF LineOK
  <1>10. CASE Pause
    <2>1. stream.at = "pause" /\ stream'.at = "dial" /\ conn' = conn /\ old' = old
      BY <1>10 DEF Pause, TypeOK, WireTyped
    <2> QED
      BY <2>1 DEF LineOK
  <1> QED
    BY <1>3, <1>4, <1>5, <1>6, <1>7, <1>8, <1>9, <1>10 DEF Stream

---------------------------------------------------------------------------
(* A change that was pushed is not lost.                                   *)

LEMMA PushedElsewhere ==
  ASSUME TypeOK, PushedOK, NEW n \in Note, Push(n), past'.emitted = past.emitted, world'.slow = world.slow,
         \A a \in herdr' : a.key.pane \in past'.pushed =>
                             a \in herdr /\ a.key.pane \in past.pushed /\ ~OfPane(n, a.key.pane)
  PROVE  PushedOK'
  <1> SUFFICES ASSUME ~world.slow, NEW a \in herdr', a.key.pane \in past'.pushed
               PROVE  Brings(conn'.line, old'.line, past.emitted[a.key.pane], a.key.pane, a.status)
    BY DEF PushedOK
  <1>1. a \in herdr /\ a.key.pane \in past.pushed /\ ~OfPane(n, a.key.pane)
    OBVIOUS
  <1>2. Brings(conn.line, old.line, past.emitted[a.key.pane], a.key.pane, a.status)
    BY <1>1 DEF PushedOK
  <1> QED
    BY <1>1, <1>2, BringsOther DEF TypeOK

LEMMA AppearPushed ==
  ASSUME TypeOK, PushedOK, NEW a \in Agents, Appear(a)
  PROVE  PushedOK'
  <1> DEFINE n == Notice("detected", a.key.pane, NoKey, Unknown, {})
  <1>1. a.key.pane \in Panes
    BY WorldAgent DEF Appear, TypeOK, HerdTyped
  <1>2. n \in Note /\ n.kind # "status"
    BY <1>1, StructuralNote DEF Notice
  <1>3. Push(n)
    BY DEF Appear
  <1> HIDE DEF n
  <1>4. /\ past'.emitted = past.emitted /\ past'.pushed = past.pushed \ {a.key.pane}
        /\ world'.slow = world.slow
    BY ActsTyped DEF Appear, TypeOK, HerdTyped, PastTyped
  <1>5. PICK b : b.key = a.key /\ herdr' = herdr \cup {b}
    BY DEF Appear
  <1> QED
    BY <1>2, <1>3, <1>4, <1>5, PushedElsewhere DEF OfPane

LEMMA LeavePushed ==
  ASSUME TypeOK, PushedOK, NEW a \in herdr, NEW kind \in {"released", "closed"}, Leave(a, kind)
  PROVE  PushedOK'
  <1> DEFINE n == Notice(kind, a.key.pane, NoKey, Unknown, {a.key})
  <1>1. a.key \in Key
    BY DEF TypeOK, HerdTyped, Runner
  <1>2. n \in Note /\ n.kind # "status"
    BY <1>1, LeftNote DEF Notice
  <1>3. Push(n)
    BY DEF Leave
  <1> HIDE DEF n
  <1>4. /\ past'.emitted = past.emitted /\ past'.pushed \subseteq past.pushed
        /\ world'.slow = world.slow /\ herdr' \subseteq herdr
    BY ActsTyped DEF Leave, TypeOK, HerdTyped, PastTyped
  <1> QED
    BY <1>2, <1>3, <1>4, PushedElsewhere DEF OfPane

LEMMA ReplacePushed ==
  ASSUME TypeOK, GoneOK, PushedOK, NEW a \in herdr, NEW b \in Agents, Replace(a, b)
  PROVE  PushedOK'
  <1> DEFINE n == Notice("updated", a.key.pane, b.key, a.status, {a.key})
             c == [key |-> b.key, status |-> a.status, cwd |-> b.cwd, kind |-> b.kind]
  <1>1. a.key \in Key /\ b.key \in Key /\ a.status \in LiveStatus
    BY ReplaceFacts
  <1>2. b.key.pane = a.key.pane /\ a.key # b.key
    BY DEF Replace, GoneOK, KeysOf
  <1>3. n \in Note /\ n.kind # "status"
    BY <1>1, <1>2, ReplacedNote DEF Notice
  <1>4. Push(n)
    BY DEF Replace
  <1>5. c.key = b.key /\ herdr' = (herdr \ {a}) \cup {c}
    BY DEF Replace
  <1> HIDE DEF n, c
  <1>6. /\ past'.emitted = past.emitted /\ past'.pushed = past.pushed \ {a.key.pane}
        /\ world'.slow = world.slow
    BY ActsTyped DEF Replace, TypeOK, HerdTyped, PastTyped
  <1> QED
    BY <1>2, <1>3, <1>4, <1>5, <1>6, PushedElsewhere DEF OfPane

LEMMA RenamePushed ==
  ASSUME TypeOK, PushedOK, NEW p \in Panes, NEW m \in Name, Rename(p, m)
  PROVE  PushedOK'
  <1> DEFINE n == Notice("renamed", p, NoKey, Unknown, {})
  <1>1. n \in Note /\ n.kind # "status"
    BY StructuralNote DEF Notice
  <1>2. Push(n)
    BY DEF Rename
  <1> HIDE DEF n
  <1>3. past' = past /\ herdr' = herdr /\ world'.slow = world.slow
    BY DEF Rename, TypeOK, HerdTyped, World
  <1> QED
    BY <1>1, <1>2, <1>3, PushedElsewhere DEF OfPane

LEMMA ChangePushed ==
  ASSUME TypeOK, LineOK, PushedOK, NEW a \in herdr, NEW s \in LiveStatus, Change(a, s)
  PROVE  PushedOK'
  <1> DEFINE p == a.key.pane
             n == Notice("status", p, NoKey, s, {})
             b == [a EXCEPT !.status = s]
  <1>1. p \in Panes /\ b.key = a.key /\ b.status = s /\ herdr' = (herdr \ {a}) \cup {b}
    BY DEF TypeOK, HerdTyped, Runner, Panes, Change
  <1>2. n \in Note /\ OfPane(n, p) /\ n.status = s /\ \A q : OfPane(n, q) => q = p
    BY <1>1, StatusNote DEF Notice, OfPane
  <1>3. Push(n)
    BY DEF Change
  <1>4. /\ past'.emitted = past.emitted /\ world'.slow = world.slow
        /\ past'.pushed = IF Hears(conn, n) \/ Hears(old, n) THEN past.pushed \cup {p} ELSE past.pushed \ {p}
    BY ActsTyped DEF Change, TypeOK, HerdTyped, PastTyped
  <1> HIDE DEF n, b
  <1>5. conn \in Connection /\ old \in Connection /\ conn.line \in Seq(Note) /\ old.line \in Seq(Note)
    BY DEF TypeOK, WireTyped, Connection
  <1>6. /\ conn'.line = IF Hears(conn, n) THEN Append(conn.line, n) ELSE conn.line
        /\ old'.line = IF Hears(old, n) THEN Append(old.line, n) ELSE old.line
    BY <1>2, <1>3, <1>5, HeardTyped DEF Push
  <1> SUFFICES ASSUME ~world.slow, NEW c \in herdr', c.key.pane \in past'.pushed
               PROVE  Brings(conn'.line, old'.line, past.emitted[c.key.pane], c.key.pane, c.status)
    BY <1>4 DEF PushedOK
  <1>7. CASE c = b
    <2>1. Hears(conn, n) \/ Hears(old, n)
      BY <1>1, <1>4, <1>7
    <2>2. CASE Hears(conn, n)
      <3>1. Says(conn'.line, p, s)
        BY <1>2, <1>5, <1>6, <2>2, SaysIt
      <3> QED
        BY <1>1, <1>7, <3>1 DEF Brings
    <2>3. CASE ~Hears(conn, n)
      <3>1. Says(old'.line, p, s)
        BY <1>2, <1>5, <1>6, <2>1, <2>3, SaysIt
      <3>2. conn.up
        BY <2>1, <2>3 DEF Hears, LineOK
      <3>3. p \notin conn.watch
        BY <1>2, <2>3, <3>2 DEF Hears, OfPane
      <3>4. Silent(conn'.line, p)
        BY <1>1, <1>6, <2>3, <3>3 DEF LineOK
      <3> QED
        BY <1>1, <1>7, <3>1, <3>4 DEF Brings
    <2> QED
      BY <2>2, <2>3
  <1>8. CASE c # b
    <2>1. c \in herdr /\ c # a
      BY <1>1, <1>8
    <2>2. c.key.pane # p
      BY <2>1 DEF TypeOK, HerdTyped, View, OnePerPane
    <2>3. c.key.pane \in past.pushed /\ ~OfPane(n, c.key.pane)
      BY <1>2, <1>4, <2>2
    <2>4. Brings(conn.line, old.line, past.emitted[c.key.pane], c.key.pane, c.status)
      BY <2>1, <2>3 DEF PushedOK
    <2> QED
      BY <1>2, <1>3, <2>3, <2>4, BringsOther DEF TypeOK
  <1> QED
    BY <1>7, <1>8

LEMMA HerdrPushed ==
  ASSUME TypeOK, GoneOK, LineOK, PushedOK, Herdr
  PROVE  PushedOK'
  <1>1. CASE Drop
    <2>1. past'.pushed = {}
      BY <1>1 DEF Drop, TypeOK, PastTyped
    <2> QED
      BY <2>1 DEF PushedOK
  <1>2. CASE ~Drop
    BY <1>2, AppearPushed, LeavePushed, ReplacePushed, ChangePushed, RenamePushed DEF Herdr
  <1> QED
    BY <1>1, <1>2

(* The stream keeps of every pane what was last said of it.                *)
LEMMA PushedKept ==
  ASSUME TypeOK, PushedOK, Stream,
         ~world.slow => \A p \in Panes : \A s :
           Brings(conn.line, old.line, past.emitted[p], p, s) => Brings(conn'.line, old'.line, past'.emitted[p], p, s)
  PROVE  PushedOK'
  <1>1. herdr' = herdr /\ world'.slow = world.slow /\ past'.pushed = past.pushed
    BY StreamKeeps DEF Outside
  <1>2. \A a \in herdr : a.key.pane \in Panes
    BY DEF TypeOK, HerdTyped, Runner, Panes
  <1> QED
    BY <1>1, <1>2 DEF PushedOK

LEMMA StreamPushed ==
  ASSUME TypeOK, LineOK, PushedOK, Stream
  PROVE  PushedOK'
  <1>1. /\ conn.line \in Seq(Note) /\ old.line \in Seq(Note) /\ PastTyped
        /\ conn \in Connection /\ old \in Connection
    BY DEF TypeOK, WireTyped, Connection
  <1>2. Subscribed.line = <<>> /\ Nowhere.line = <<>>
    BY NotNowhere DEF Subscribed
  <1>3. CASE Dial
    <2>1. conn'.line = conn.line /\ old' = old /\ past' = past
      BY <1>2, <1>3 DEF Dial, LineOK
    <2> QED
      BY <1>3, <2>1, PushedKept
  <1>4. CASE Resubscribe
    <2>1. old.line = <<>> /\ past' = past
      BY <1>2, <1>4 DEF Resubscribe, LineOK
    <2>2. (conn'.line = <<>> /\ old'.line = conn.line) \/ (conn' = conn /\ old' = old)
      BY <1>2, <1>4 DEF Resubscribe
    <2>3. ASSUME NEW p \in Panes, NEW s, Brings(conn.line, old.line, past.emitted[p], p, s)
          PROVE  Brings(conn'.line, old'.line, past'.emitted[p], p, s)
      BY <2>1, <2>2, <2>3, BringsRest
    <2> QED
      BY <2>3, PushedKept
  <1>5. CASE Retry \/ Pause
    <2>1. conn' = conn /\ old' = old /\ past' = past
      BY <1>5 DEF Retry, Pause
    <2> QED
      BY <2>1, PushedKept
  <1>6. CASE Read
    <2>1. old.line = <<>> /\ old' = old /\ conn.line # <<>> /\ conn'.line = Tail(conn.line) /\ Emit(Head(conn.line))
      BY <1>1, <1>2, <1>6 DEF Read, LineOK, Connection
    <2>2. ASSUME NEW p \in Panes, NEW s, Brings(conn.line, old.line, past.emitted[p], p, s)
          PROVE  Brings(conn'.line, old'.line, past'.emitted[p], p, s)
      <3>1. Rest(conn.line, past.emitted[p], p, s)
        BY <2>1, <2>2, BringsRest
      <3>2. Rest(Tail(conn.line), past'.emitted[p], p, s)
        BY <1>1, <2>1, <3>1, RestEmitted
      <3> QED
        BY <2>1, <3>2, BringsRest
    <2> QED
      BY <2>2, PushedKept
  <1>7. CASE DrainRead
    <2>1. conn' = conn /\ old.line # <<>> /\ old'.line = Tail(old.line) /\ Emit(Head(old.line))
      BY <1>1, <1>7 DEF DrainRead, Connection
    <2>2. ASSUME NEW p \in Panes, NEW s, Brings(conn.line, old.line, past.emitted[p], p, s)
          PROVE  Brings(conn'.line, old'.line, past'.emitted[p], p, s)
      <3>1. Says(conn.line, p, s) \/ (Silent(conn.line, p) /\ Rest(old.line, past.emitted[p], p, s))
        BY <2>2, BringsRest
      <3>2. Rest(old.line, past.emitted[p], p, s) => Rest(Tail(old.line), past'.emitted[p], p, s)
        BY <1>1, <2>1, RestEmitted
      <3> QED
        BY <2>1, <3>1, <3>2, BringsRest
    <2> QED
      BY <2>2, PushedKept
  <1>8. CASE DrainEnds
    <2>1. conn' = conn /\ old'.line = <<>> /\ past' = past /\ (~world.slow => old.line = <<>>)
      BY <1>2, <1>8 DEF DrainEnds
    <2> QED
      BY <2>1, PushedKept
  <1>9. CASE Reset
    <2>1. conn.line = <<>> /\ conn'.line = <<>> /\ old' = old /\ past' = past
      BY <1>2, <1>9 DEF Reset, Emit, Notice
    <2> QED
      BY <2>1, PushedKept
  <1> QED
    BY <1>3, <1>4, <1>5, <1>6, <1>7, <1>8, <1>9 DEF Stream

(* The lines, and what was pushed, are nobody else's.                      *)
LEMMA WireUntouched ==
  ASSUME LineOK, PushedOK, UNCHANGED <<herdr, conn, old>>, stream'.at = stream.at,
         past'.pushed = past.pushed, past'.emitted = past.emitted, world'.slow = world.slow
  PROVE  LineOK' /\ PushedOK'
  BY DEF LineOK, PushedOK

---------------------------------------------------------------------------
(* The invariant.                                                          *)

LEMMA ListingWire ==
  ASSUME TypeOK, LineOK, PushedOK, NEW c \in Callers, Listing(c)
  PROVE  LineOK' /\ PushedOK'
  <1>1. UNCHANGED <<herdr, conn, old, past>>
    BY DEF Listing, List, Labels, CallFails, ApplySnapshot, Watch, Others
  <1>2. stream'.at = stream.at
    BY DEF Listing, List, Labels, CallFails, ApplySnapshot, Watch, TypeOK, WireTyped
  <1>3. world'.slow = world.slow
    BY FailsTyped DEF Listing, List, Labels, CallFails, ApplySnapshot, Watch, TypeOK, HerdTyped
  <1> QED
    BY <1>1, <1>2, <1>3, WireUntouched

LEMMA DaemonWire ==
  ASSUME TypeOK, LineOK, PushedOK,
         Take \/ (\E why \in {"coalesce", "interval"} : Snapshot(why)) \/ Tell \/ Dispatch \/ Replay
  PROVE  LineOK' /\ PushedOK'
  <1>1. UNCHANGED <<herdr, conn, old, stream>>
    BY DEF Take, Snapshot, Tell, Dispatch, Replay
  <1>2. past'.pushed = past.pushed /\ past'.emitted = past.emitted
    BY DEF Take, Apply, Snapshot, Tell, Dispatch, Replay, TypeOK, PastTyped
  <1>3. world'.slow = world.slow
    BY DEF Take, Snapshot, Tell, Dispatch, Replay, TypeOK, HerdTyped, World
  <1> QED
    BY <1>1, <1>2, <1>3, WireUntouched

LEMMA InitHolds ==
  ASSUME Init
  PROVE  IInv
  <1> DEFINE s0 == CHOOSE s \in LiveStatus : TRUE
             f == [a \in world.first |-> [key |-> a.key, status |-> s0, cwd |-> a.cwd, kind |-> a.kind]]
  <1>1. /\ world \in World /\ IsFiniteSet(world.first) /\ world.first \subseteq Agents
        /\ \A a, b \in world.first : a.key.pane = b.key.pane => a = b
    BY FeedAssumption DEF Init, World
  <1>2. s0 \in LiveStatus
    BY FeedAssumption
  <1> HIDE DEF s0
  <1>3. herdr = {f[a] : a \in world.first}
    BY DEF Init, s0
  <1>4. \A a \in world.first : f[a] \in Runner /\ f[a].key = a.key
    BY <1>1, <1>2, FeedAssumption DEF Runner
  <1>5. f \in Surjection(world.first, herdr)
    BY <1>3 DEF Surjection
  <1> HIDE DEF f
  <1>6. View(herdr)
    <2>1. IsFiniteSet(herdr)
      BY <1>1, <1>5, FS_Surjection
    <2>2. OnePerPane(herdr)
      BY <1>1, <1>3, <1>4 DEF OnePerPane
    <2> QED
      BY <2>1, <2>2 DEF View
  <1>7. KeysOf(herdr) = KeysOf(world.first) /\ KeysOf(world.first) \subseteq Key
    BY <1>1, <1>3, <1>4, FeedAssumption DEF KeysOf
  <1>8. label \in [Panes -> Name]
    BY FeedAssumption DEF Init
  <1>9. HerdTyped
    BY <1>1, <1>3, <1>4, <1>6, <1>8 DEF HerdTyped
  <1>10. WireTyped
    BY NowhereTyped, EmptySeq DEF Init, WireTyped
  <1>11. CallTyped
    <2>1. NoCall.at = "none" /\ NoCall.agents = {} /\ View({})
      BY ViewOfNone DEF NoCall, Call
    <2>2. ASSUME NEW c \in Callers PROVE call[c].at \in {"none", "list"} /\ call[c].agents = {}
      BY DEF Init, NoCall, Callers, Call
    <2>3. call \in [Callers -> Call]
      BY DEF Init, NoCall, Call
    <2> QED
      BY <2>1, <2>2, <2>3 DEF CallTyped, Listed, Call
  <1>12. TellTyped
    BY ViewOfNone, EmptySeq DEF Init, TellTyped
  <1>13. PastTyped
    BY <1>7 DEF Init, PastTyped
  <1>14. TypeOK
    BY <1>9, <1>10, <1>11, <1>12, <1>13 DEF TypeOK
  <1>15. CallOK
    <2>1. call["registry"].at = "none" /\ call["daemon"].at = "list"
      BY DEF Init, Callers, NoCall, Call
    <2> QED
      BY <2>1 DEF Init, CallOK
  <1>16. ToldOK
    BY FoldOfNone DEF Init, ToldOK
  <1>17. GoneOK
    <2>1. past.ran = KeysOf(herdr) /\ past.told = {} /\ conn.line = <<>> /\ old.line = <<>> /\ channel = <<>>
      BY <1>7 DEF Init, Nowhere
    <2> QED
      BY <2>1, NoneLate DEF GoneOK
  <1>18. LineOK
    BY NotNowhere, NothingSaid DEF Init, LineOK
  <1>19. PushedOK
    BY DEF Init, PushedOK
  <1> QED
    BY <1>14, <1>15, <1>16, <1>17, <1>18, <1>19 DEF IInv

LEMMA HerdrStep ==
  ASSUME IInv, Herdr
  PROVE  IInv'
  <1>1. TypeOK'
    <2>1. CASE Drop
      BY <2>1, DropTyped DEF IInv
    <2>2. CASE ~Drop
      BY <2>2, AppearTyped, LeaveTyped, ReplaceTyped, ChangeTyped, RenameTyped DEF IInv, Herdr
    <2> QED
      BY <2>1, <2>2
  <1>2. FeedOK'
    BY HerdrKeeps, FeedUntouched DEF IInv, FeedOK, Mine
  <1>3. GoneOK'
    <2>1. CASE Drop
      BY <2>1, DropGone DEF IInv
    <2>2. CASE ~Drop
      BY <2>2, AppearGone, LeaveGone, ReplaceGone, ChangeGone, RenameGone DEF IInv, Herdr
    <2> QED
      BY <2>1, <2>2
  <1>4. LineOK' /\ PushedOK'
    BY HerdrLine, HerdrPushed DEF IInv
  <1> QED
    BY <1>1, <1>2, <1>3, <1>4 DEF IInv, FeedOK

LEMMA StreamStep ==
  ASSUME IInv, Stream
  PROVE  IInv'
  <1>1. TypeOK'
    BY DialTyped, ResubscribeTyped, RetryTyped, ReadTyped, DrainReadTyped, DrainEndsTyped, ResetTyped, PauseTyped
       DEF IInv, Stream
  <1>2. FeedOK'
    BY StreamKeeps, FeedUntouched DEF IInv, FeedOK, Outside
  <1>3. GoneOK' /\ LineOK' /\ PushedOK'
    BY StreamGone, StreamLine, StreamPushed DEF IInv
  <1> QED
    BY <1>1, <1>2, <1>3 DEF IInv, FeedOK

LEMMA ListingStep ==
  ASSUME IInv, NEW c \in Callers, Listing(c)
  PROVE  IInv'
  <1>1. TypeOK'
    BY ListTyped, LabelsTyped, CallFailsTyped, ApplySnapshotTyped, WatchTyped DEF IInv, Listing
  <1>2. FeedOK'
    BY ListFeed, LabelsFeed, CallFailsFeed, ApplySnapshotFeed, WatchFeed DEF IInv, FeedOK, Listing
  <1>3. GoneOK' /\ LineOK' /\ PushedOK'
    BY ListingGone, ListingWire DEF IInv
  <1> QED
    BY <1>1, <1>2, <1>3 DEF IInv, FeedOK

LEMMA SnapshotStep ==
  ASSUME IInv, NEW why \in {"coalesce", "interval"}, Snapshot(why)
  PROVE  IInv'
  <1>1. TypeOK'
    BY SnapshotStartTyped DEF IInv
  <1>2. FeedOK'
    BY AsksFeed DEF IInv, FeedOK, Snapshot
  <1>3. GoneOK' /\ LineOK' /\ PushedOK'
    BY SnapshotGone, DaemonWire DEF IInv
  <1> QED
    BY <1>1, <1>2, <1>3 DEF IInv, FeedOK

LEMMA DaemonStep ==
  ASSUME IInv, Take \/ Tell \/ Dispatch \/ Replay
  PROVE  IInv'
  <1>1. TypeOK'
    BY TakeTyped, TellsTyped, DispatchTyped, ReplayTyped DEF IInv
  <1>2. FeedOK'
    BY TakeFeed, TellFeed, DispatchFeed, ReplayFeed DEF IInv, FeedOK
  <1>3. GoneOK' /\ LineOK' /\ PushedOK'
    BY TakeGone, TellGone, ReplayGone, DaemonWire DEF IInv
  <1> QED
    BY <1>1, <1>2, <1>3 DEF IInv, FeedOK

LEMMA StutterStep ==
  ASSUME IInv, UNCHANGED vars
  PROVE  IInv'
  <1>1. TypeOK'
    BY StutterTyped DEF IInv
  <1>2. FeedOK'
    BY FeedUntouched DEF IInv, FeedOK, vars
  <1>3. GoneOK' /\ LineOK' /\ PushedOK'
    BY StutterGone, WireUntouched DEF IInv, vars
  <1> QED
    BY <1>1, <1>2, <1>3 DEF IInv, FeedOK

(* The registry's view, its goroutine, the stream's two connections and    *)
(* what is on its way between them keep the order they need, in every      *)
(* reachable state: Registry.Run and Snapshot (app/registry.go), Stream.Run*)
(* and drainOld (adapters/herdr/stream.go).                                *)
THEOREM FeedInvariant == Spec => []IInv
  <1>1. Init => IInv
    BY InitHolds
  <1>2. IInv /\ [Next]_vars => IInv'
    BY HerdrStep, StreamStep, ListingStep, SnapshotStep, DaemonStep, StutterStep DEF Next
  <1> QED
    BY <1>1, <1>2, PTL DEF Spec

(* While only the registry's own goroutine takes snapshots, what the       *)
(* daemon was told and what waits for it add up to what the registry has:  *)
(* Registry.emit sends every difference, in the order it was found.        *)
THEOREM WhatIsToldIsTrue == Spec => []FeedIsTrue
  <1>1. IInv => FeedIsTrue
    <2> SUFFICES ASSUME IInv, daemon.at = "idle", ~past.replayed
                 PROVE  Fold(daemon.seen, feed \o loop.events) = reg.agents
      BY DEF FeedIsTrue
    <2>1. feed \in Seq(Event) /\ loop.events \in Seq(Event) /\ daemon.events = <<>>
      BY DEF IInv, TypeOK, TellTyped, CallOK
    <2>2. Fold(Fold(daemon.seen, feed), loop.events) = reg.agents
      BY <2>1, FoldOfNone DEF IInv, ToldOK
    <2> QED
      BY <2>1, <2>2, FoldConcat
  <1> QED
    BY <1>1, FeedInvariant, PTL

(* A key that the registry has been told is gone is not among those it     *)
(* answers for, until the daemon's own snapshot brings an old list:        *)
(* retireLocked and Visible (app/registry.go).                             *)
THEOREM GoneKeysStayGone == Spec => []GoneStaysGone
  <1>1. IInv => GoneStaysGone
    BY DEF IInv, GoneOK, GoneStaysGone
  <1> QED
    BY <1>1, FeedInvariant, PTL

(* When the stream has handed over and read all there is, the last status  *)
(* that was pushed for a pane is the last it emitted, across any number of *)
(* handovers within their grace: serve and drainOld                        *)
(* (adapters/herdr/stream.go).                                             *)
THEOREM HandoversAreComplete == Spec => []HandoverLosesNothing
  <1>1. IInv => HandoverLosesNothing
    <2> SUFFICES ASSUME IInv, stream.at = "serve", conn.line = <<>>, ~world.slow,
                        NEW a \in herdr, a.key.pane \in past.pushed
                 PROVE  past.emitted[a.key.pane] = a.status
      BY DEF HandoverLosesNothing
    <2>1. old.line = <<>>
      BY NotNowhere DEF IInv, LineOK
    <2>2. Brings(conn.line, old.line, past.emitted[a.key.pane], a.key.pane, a.status)
      BY DEF IInv, PushedOK
    <2>3. Rest(<<>>, past.emitted[a.key.pane], a.key.pane, a.status)
      BY <2>1, <2>2, BringsRest
    <2> QED
      BY <2>3, NothingSaid DEF Rest
  <1> QED
    BY <1>1, FeedInvariant, PTL

---------------------------------------------------------------------------
(* What the snapshots of a history make of the stored table.               *)

LEMMA LivesAreDistinct ==
  ASSUME NEW L \in Lives
  PROVE  L \in SUBSET Agent /\ Distinct(L) /\ KeysOf(L) \subseteq Key
  BY LivesAssumption DEF Distinct, KeysOf, Agent

LEMMA DedupedIsTable ==
  ASSUME NEW tt \in [Key -> Entry]
  PROVE  DedupeThreads(tt) \in [Key -> Entry]
  BY NoEntryIsEntry DEF DedupeThreads

LEMMA DedupedIsSingle ==
  ASSUME NEW tt \in [Key -> Entry]
  PROVE  Single(DedupeThreads(tt))
  <1> DEFINE new == DedupeThreads(tt)
  <1>1. \A k \in Mapped(new) : k \in Key /\ new[k] = tt[k] /\ k = KeyForThread(tt, new[k].thread)
    BY DEF DedupeThreads, Mapped, NoEntry
  <1> HIDE DEF new
  <1>2. Single(new)
    BY <1>1 DEF Single
  <1> QED
    BY <1>2 DEF new

(* The table stays a table, the snapshot one of those Herdr may give.      *)
THEOREM TableStaysTyped == History => []TableOK
  <1>1. Stored => TableOK
    BY TablesAssumption DEF Stored, TableOK
  <1>2. TableOK /\ [Pass]_history => TableOK'
    <2> SUFFICES ASSUME TableOK, [Pass]_history PROVE TableOK'
      OBVIOUS
    <2>1. CASE Dedupe
      BY <2>1, DedupedIsTable DEF TableOK, Dedupe
    <2>2. CASE Reassociate
      BY <2>2, LivesAreDistinct, ContinuedIsTable DEF TableOK, Reassociate
    <2>3. CASE NewSnapshot
      BY <2>3 DEF TableOK, NewSnapshot
    <2>4. CASE UNCHANGED history
      BY <2>4 DEF TableOK, history
    <2> QED
      BY <2>1, <2>2, <2>3, <2>4 DEF Pass
  <1> QED
    BY <1>1, <1>2, PTL DEF History

(* No snapshot ever ends the daemon with a plan that cannot be applied:    *)
(* Reconciler.reassociate's error branch is unreachable.                   *)
THEOREM PlanAlwaysApplies == History => []FreshPlanApplies
  <1>1. TableOK => FreshPlanApplies
    BY LivesAreDistinct, PlanApplies DEF TableOK, FreshPlanApplies
  <1> QED
    BY <1>1, TableStaysTyped, PTL

(* No pass gives an agent of a known session the entry stored under the    *)
(* key of another known session.                                           *)
THEOREM SessionsStayApart == History => []NeverFromAnotherSession
  <1>1. TableOK => NeverFromAnotherSession
    BY LivesAreDistinct, PlanKeepsSessionsApart DEF TableOK, NeverFromAnotherSession
  <1> QED
    BY <1>1, TableStaysTyped, PTL

(* Once each topic has one holder it keeps it: no pass gives one topic to  *)
(* two agents, and a pass over a table with duplicates leaves none.        *)
THEOREM HoldersStayOne == History => OneHolder
  <1> DEFINE StaysOne == Single(topics) \/ topics' # topics => Single(topics')
  <1>1. TableOK /\ [Pass]_history => [StaysOne]_history
    <2> SUFFICES ASSUME TableOK, Pass PROVE StaysOne
      BY DEF history
    <2>1. CASE Dedupe
      BY <2>1, DedupedIsSingle DEF TableOK, Dedupe
    <2>2. CASE Reassociate
      BY <2>2, LivesAreDistinct, ContinuedKeepsSingle DEF TableOK, Reassociate
    <2>3. CASE NewSnapshot
      BY <2>3 DEF NewSnapshot
    <2> QED
      BY <2>1, <2>2, <2>3 DEF Pass
  <1> QED
    BY <1>1, TableStaysTyped, PTL DEF History, OneHolder

(* The events of a snapshot, one agent at a time, and its pass come to the *)
(* same table.                                                             *)
THEOREM OrderDoesNotMatter == History => OneByOne
  <1> DEFINE Agrees == topics' # topics /\ Single(topics) =>
                          \A a \in live : Alone(a) =>
                            \E first \in {Continued(topics, {a})} : Continued(first, live \ {a}) = topics'
  <1>1. TableOK /\ [Pass]_history => [Agrees]_history
    <2> SUFFICES ASSUME TableOK, Pass, topics' # topics, Single(topics), NEW a \in live, Alone(a)
                 PROVE  Continued(Continued(topics, {a}), live \ {a}) = topics'
      BY DEF history
    <2>1. topics' = Continued(topics, live)
      BY DEF Pass, Dedupe, Reassociate, NewSnapshot
    <2>2. \A b \in live : b.key.pane = a.key.pane => b = a
      BY DEF Alone
    <2>3. topics \in [Key -> Entry] /\ live \in SUBSET Agent /\ Distinct(live)
      BY LivesAreDistinct DEF TableOK
    <2> QED
      BY <2>1, <2>2, <2>3, OneFirst
  <1> QED
    BY <1>1, TableStaysTyped, PTL DEF History, OneByOne
=============================================================================
