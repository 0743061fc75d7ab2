------------------------------ MODULE Mapping ------------------------------
(***************************************************************************)
(* The aggregate that links agents to forum topics, internal/domain        *)
(* mapping.go, status.go and agent.go: identity of agents across restarts, *)
(* the plan that moves a stored topic to the key its agent has now, and    *)
(* the queries the reconciler asks.  Everything here is a pure operator    *)
(* on a table  topics \in [Key -> Entry];  a key without a topic holds     *)
(* NoEntry.                                                                *)
(*                                                                         *)
(* Names, directories, kinds, panes, terminals and session digests are     *)
(* opaque values; Unknown is Go's empty string.  Herdr never reports an    *)
(* agent without a pane or a terminal, so the code's tests for an empty    *)
(* pane or terminal are left out.                                          *)
(***************************************************************************)
EXTENDS Naturals, FiniteSets

CONSTANTS Key,         \* keys in play: records [pane, term, digest]
          Name,        \* topic names
          Cwd,         \* working directories, Unknown not among them
          Kind,        \* agent kinds
          LiveStatus   \* statuses of a running agent

Unknown == ""
Exited == "exited"

ASSUME KeyAssumption ==
  Key # {} /\ \A k \in Key : {"pane", "term", "digest"} \subseteq DOMAIN k
ASSUME ValueAssumption ==
  Unknown \notin Cwd \cup Kind /\ Exited \notin LiveStatus

Agent == [key : Key, name : Name, status : LiveStatus,
          cwd : Cwd \cup {Unknown}, kind : Kind]

Entry == [thread : Nat, name : Name \cup {Unknown}, status : LiveStatus \cup {Exited},
          closed : BOOLEAN, muted : BOOLEAN, cwd : Cwd \cup {Unknown},
          kind : Kind \cup {Unknown}, legacy : BOOLEAN, at : Nat]

(* Thread ids are positive, so an entry of thread 0 is no entry at all.    *)
NoEntry == [thread |-> 0, name |-> Unknown, status |-> Exited, closed |-> FALSE,
            muted |-> FALSE, cwd |-> Unknown, kind |-> Unknown, legacy |-> FALSE, at |-> 0]

Mapped(topics) == {k \in Key : topics[k].thread # 0}
Linked(topics) == {topics[k].thread : k \in Mapped(topics)}
Single(topics) == \A k, l \in Mapped(topics) : topics[k].thread = topics[l].thread => k = l
Live(e) == e.status # Exited
Forget(topics, k) == [topics EXCEPT ![k] = NoEntry]

---------------------------------------------------------------------------
(* Identity of agents: agent.go.                                           *)

SameSession(k, l) == k.pane = l.pane /\ k.digest # Unknown /\ k.digest = l.digest

ConflictsWith(k, l) ==
  /\ k.pane = l.pane
  /\ k.digest # Unknown /\ l.digest # Unknown
  /\ k.digest # l.digest

---------------------------------------------------------------------------
(* PlanReassociation: which stored topic each live agent continues.  live  *)
(* is a set of agents with distinct keys.  A key that has an entry of its  *)
(* own keeps it; then equal sessions; then, for an agent whose session or  *)
(* whose entry's session is unknown, equal pane, directory, kind and name. *)

KeysOf(live) == {a.key : a \in live}
ExactKeys(topics, live) == Mapped(topics) \cap KeysOf(live)
Unassigned(topics, live) == {a \in live : a.key \notin Mapped(topics)}

SessionCandidates(topics, live, a) ==
  {k \in Mapped(topics) \ ExactKeys(topics, live) : SameSession(k, a.key)}

SessionMoves(topics, live) ==
  {m \in [from : Mapped(topics), to : KeysOf(Unassigned(topics, live))] :
     \E a \in Unassigned(topics, live) :
       /\ m.to = a.key
       /\ SessionCandidates(topics, live, a) = {m.from}
       /\ \A b \in Unassigned(topics, live) :
            m.from \in SessionCandidates(topics, live, b) => b.key = a.key}

(* Mutants of EligibleFallback: the sessions, the panes are not compared.  *)
EligibleAnySession(k, e, a) ==
  k.pane = a.key.pane /\ a.cwd # Unknown /\ e.cwd = a.cwd /\ e.kind = a.kind /\ e.name = a.name

EligibleAnyPane(k, e, a) ==
  /\ k.digest = Unknown \/ a.key.digest = Unknown
  /\ a.cwd # Unknown /\ e.cwd = a.cwd /\ e.kind = a.kind /\ e.name = a.name

EligibleFallback(k, e, a) ==
  /\ k.pane = a.key.pane
  /\ k.digest = Unknown \/ a.key.digest = Unknown
  /\ a.cwd # Unknown
  /\ e.cwd = a.cwd \/ (e.cwd = Unknown /\ e.legacy)
  /\ e.kind \in {Unknown, a.kind}
  /\ e.name = a.name

(* An agent with session candidates was matched or refused there.          *)
FallbackAgents(topics, live) ==
  {a \in Unassigned(topics, live) : SessionCandidates(topics, live, a) = {}}

FallbackCandidates(topics, live, a) ==
  {k \in Mapped(topics) \ ExactKeys(topics, live) :
     /\ \A m \in SessionMoves(topics, live) : m.from # k
     /\ EligibleFallback(k, topics[k], a)}

(* The only live candidate, else the only candidate, else none.            *)
FallbackChoice(topics, live, a) ==
  LET candidates == FallbackCandidates(topics, live, a)
      running == {k \in candidates : Live(topics[k])}
  IN IF Cardinality(running) = 1 THEN running
     ELSE IF Cardinality(candidates) = 1 THEN candidates ELSE {}

(* Mutant of FallbackMoves: it guesses.                                    *)
FallbackGuesses(topics, live) ==
  {m \in [from : Mapped(topics), to : KeysOf(FallbackAgents(topics, live))] :
     \E a \in FallbackAgents(topics, live) :
       m.to = a.key /\ m.from \in FallbackCandidates(topics, live, a)}

FallbackMoves(topics, live) ==
  {m \in [from : Mapped(topics), to : KeysOf(FallbackAgents(topics, live))] :
     \E a \in FallbackAgents(topics, live) :
       /\ m.to = a.key
       /\ FallbackChoice(topics, live, a) = {m.from}
       /\ \A b \in FallbackAgents(topics, live) :
            m.from \in FallbackCandidates(topics, live, b) => b.key = a.key}

PlanReassociation(topics, live) ==
  {[from |-> k, to |-> k] : k \in ExactKeys(topics, live)}
    \cup SessionMoves(topics, live) \cup FallbackMoves(topics, live)

---------------------------------------------------------------------------
(* ApplyReassociation refuses an inconsistent plan as a whole.             *)

MoveSources(plan) == {m.from : m \in {n \in plan : n.from # n.to}}

Applicable(topics, plan) ==
  /\ \A m, n \in plan : (m.from = n.from \/ m.to = n.to) => m = n
  /\ \A m \in plan : m.from \in Mapped(topics)
  /\ \A m \in plan :
       m.from = m.to \/ m.to \notin Mapped(topics) \/ m.to \in MoveSources(plan)

(* Mutant of ApplyReassociation: the old key keeps its entry.              *)
ApplyCopies(topics, plan) ==
  [k \in Key |-> IF \E m \in plan : m.to = k
                   THEN topics[(CHOOSE m \in plan : m.to = k).from] ELSE topics[k]]

ApplyReassociation(topics, plan) ==
  [k \in Key |->
     IF \E m \in plan : m.to = k
       THEN topics[(CHOOSE m \in plan : m.to = k).from]
       ELSE IF k \in MoveSources(plan) THEN NoEntry ELSE topics[k]]

(* Mutant of UpdateMetadata: the entry starts anew.                        *)
UpdateAnew(e, a) == [e EXCEPT !.cwd = a.cwd, !.kind = a.kind, !.legacy = FALSE, !.muted = FALSE]

(* UpdateMetadata after a successful association: what the live agent      *)
(* knows replaces what the entry knew, what it does not know erases        *)
(* nothing.                                                                *)
UpdateMetadata(e, a) ==
  [e EXCEPT !.cwd = IF a.cwd = Unknown THEN @ ELSE a.cwd,
            !.legacy = @ /\ a.cwd = Unknown,
            !.kind = a.kind]

UpdateAll(topics, plan, live) ==
  [k \in Key |-> IF \E m \in plan : m.to = k
                   THEN UpdateMetadata(topics[k], CHOOSE a \in live : a.key = k)
                   ELSE topics[k]]

(* Reconciler.reassociate: live agents take the topics they continue.      *)
Continued(topics, live) ==
  LET plan == PlanReassociation(topics, live)
  IN UpdateAll(ApplyReassociation(topics, plan), plan, live)

---------------------------------------------------------------------------
(* Queries and the other mutations.                                        *)

(* Link stores a topic Telegram has just created for agent a.              *)
Link(topics, a, t, now) ==
  [topics EXCEPT ![a.key] =
     [thread |-> t, name |-> a.name, status |-> a.status, closed |-> FALSE, muted |-> FALSE,
      cwd |-> a.cwd, kind |-> a.kind, legacy |-> FALSE, at |-> now]]

(* An exited entry is final: a late status never revives it.               *)
Differs(e, a) == Live(e) /\ (e.name # a.name \/ e.status # a.status)

Orphans(topics, keys) ==
  {k \in Mapped(topics) : Live(topics[k]) /\ ~topics[k].muted /\ k \notin keys}

Unclosed(topics) ==
  {k \in Mapped(topics) : ~Live(topics[k]) /\ ~topics[k].closed /\ ~topics[k].muted}

Stale(topics, now, maxAge) ==
  {k \in Mapped(topics) : /\ ~Live(topics[k]) /\ topics[k].closed
                          /\ now > topics[k].at + maxAge}

(* The newest entry of a thread, a live one winning a tie.  What is left   *)
(* of a tie the code settles by the keys' spelling, the model by CHOOSE.   *)
Newer(e, f) == e.at > f.at \/ (e.at = f.at /\ Live(e) /\ ~Live(f))

Holders(topics, t) == {k \in Mapped(topics) : topics[k].thread = t}
KeyForThread(topics, t) ==
  CHOOSE k \in Holders(topics, t) :
    \A l \in Holders(topics, t) : ~Newer(topics[l], topics[k])

DedupeThreads(topics) ==
  [k \in Key |-> IF k \in Mapped(topics) /\ k # KeyForThread(topics, topics[k].thread)
                   THEN NoEntry ELSE topics[k]]
=============================================================================
