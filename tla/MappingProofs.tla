---------------------------- MODULE MappingProofs ---------------------------
(***************************************************************************)
(* What PlanReassociation and ApplyReassociation guarantee for every table *)
(* and every set of live agents, and the small facts about tables that the *)
(* proofs about the reconciler use.                                        *)
(***************************************************************************)
EXTENDS AgentEvents, FiniteSetTheorems, SequenceTheorems, TLAPS

Distinct(live) == \A a, b \in live : a.key = b.key => a = b

---------------------------------------------------------------------------
(* Shape of the plan: it assigns mapped keys to keys of live agents.  An   *)
(* assignment that moves nothing is an exact one; one that moves comes     *)
(* from a key no live agent has and goes to an agent without an entry.     *)

LEMMA ExactMovesNothing ==
  ASSUME NEW topics, NEW live
  PROVE  \A m \in {[from |-> k, to |-> k] : k \in ExactKeys(topics, live)} :
           m \in [from : Mapped(topics), to : KeysOf(live)] /\ m.from = m.to
           /\ m.from \in ExactKeys(topics, live)
  BY DEF ExactKeys

LEMMA SessionMoveShape ==
  ASSUME NEW topics, NEW live, NEW m \in SessionMoves(topics, live)
  PROVE  /\ m \in [from : Mapped(topics), to : KeysOf(live)]
         /\ m.from \notin ExactKeys(topics, live) /\ m.to \notin Mapped(topics)
         /\ \E a \in Unassigned(topics, live) :
              a.key = m.to /\ SessionCandidates(topics, live, a) = {m.from}
         /\ SameSession(m.from, m.to)
  <1>1. PICK a \in Unassigned(topics, live) :
          m.to = a.key /\ SessionCandidates(topics, live, a) = {m.from}
    BY DEF SessionMoves
  <1>2. m.from \in Mapped(topics) \ ExactKeys(topics, live) /\ SameSession(m.from, a.key)
    BY <1>1 DEF SessionCandidates
  <1>3. a \in live /\ a.key \notin Mapped(topics)
    BY DEF Unassigned
  <1> QED
    BY <1>1, <1>2, <1>3 DEF SessionMoves, KeysOf, Unassigned

LEMMA FallbackMoveShape ==
  ASSUME NEW topics, NEW live, NEW m \in FallbackMoves(topics, live)
  PROVE  /\ m \in [from : Mapped(topics), to : KeysOf(live)]
         /\ m.from \notin ExactKeys(topics, live) /\ m.to \notin Mapped(topics)
         /\ \E a \in FallbackAgents(topics, live) :
              /\ a.key = m.to /\ FallbackChoice(topics, live, a) = {m.from}
              /\ m.from \in FallbackCandidates(topics, live, a)
              /\ EligibleFallback(m.from, topics[m.from], a)
  <1>1. PICK a \in FallbackAgents(topics, live) :
          m.to = a.key /\ FallbackChoice(topics, live, a) = {m.from}
    BY DEF FallbackMoves
  <1>2. m.from \in FallbackCandidates(topics, live, a)
    BY <1>1 DEF FallbackChoice
  <1>3. /\ m.from \in Mapped(topics) \ ExactKeys(topics, live)
        /\ EligibleFallback(m.from, topics[m.from], a)
    BY <1>2 DEF FallbackCandidates
  <1>4. a \in live /\ a.key \notin Mapped(topics)
    BY DEF FallbackAgents, Unassigned
  <1> QED
    BY <1>1, <1>2, <1>3, <1>4 DEF FallbackMoves, KeysOf, FallbackAgents, Unassigned

LEMMA PlanShape ==
  ASSUME NEW topics, NEW live, NEW m \in PlanReassociation(topics, live)
  PROVE  /\ m \in [from : Mapped(topics), to : KeysOf(live)]
         /\ m.from = m.to => m.from \in ExactKeys(topics, live)
         /\ m.from # m.to => m.from \notin ExactKeys(topics, live) /\ m.to \notin Mapped(topics)
  <1>1. CASE m \in {[from |-> k, to |-> k] : k \in ExactKeys(topics, live)}
    BY <1>1, ExactMovesNothing
  <1>2. CASE m \in SessionMoves(topics, live)
    BY <1>2, SessionMoveShape
  <1>3. CASE m \in FallbackMoves(topics, live)
    BY <1>3, FallbackMoveShape
  <1> QED
    BY <1>1, <1>2, <1>3 DEF PlanReassociation

---------------------------------------------------------------------------
(* Two assignments of a plan differ in both ends.                          *)

LEMMA SessionMovesApart ==
  ASSUME NEW topics, NEW live, Distinct(live),
         NEW m \in SessionMoves(topics, live), NEW n \in SessionMoves(topics, live),
         m.from = n.from \/ m.to = n.to
  PROVE  m = n
  <1>1. PICK a \in Unassigned(topics, live) :
          /\ m.to = a.key /\ SessionCandidates(topics, live, a) = {m.from}
          /\ \A b \in Unassigned(topics, live) :
               m.from \in SessionCandidates(topics, live, b) => b.key = a.key
    BY DEF SessionMoves
  <1>2. PICK c \in Unassigned(topics, live) :
          n.to = c.key /\ SessionCandidates(topics, live, c) = {n.from}
    BY DEF SessionMoves
  <1>3. a.key = c.key => a = c
    BY DEF Distinct, Unassigned
  <1>4. m.from = n.from /\ m.to = n.to
    <2>1. CASE m.from = n.from
      BY <2>1, <1>1, <1>2
    <2>2. CASE m.to = n.to
      BY <2>2, <1>1, <1>2, <1>3
    <2> QED
      BY <2>1, <2>2
  <1> QED
    BY <1>4, SessionMoveShape

LEMMA FallbackMovesApart ==
  ASSUME NEW topics, NEW live, Distinct(live),
         NEW m \in FallbackMoves(topics, live), NEW n \in FallbackMoves(topics, live),
         m.from = n.from \/ m.to = n.to
  PROVE  m = n
  <1>1. PICK a \in FallbackAgents(topics, live) :
          /\ m.to = a.key /\ FallbackChoice(topics, live, a) = {m.from}
          /\ \A b \in FallbackAgents(topics, live) :
               m.from \in FallbackCandidates(topics, live, b) => b.key = a.key
    BY DEF FallbackMoves
  <1>2. PICK c \in FallbackAgents(topics, live) :
          /\ n.to = c.key /\ FallbackChoice(topics, live, c) = {n.from}
    BY DEF FallbackMoves
  <1>3. n.from \in FallbackCandidates(topics, live, c)
    BY <1>2 DEF FallbackChoice
  <1>4. a.key = c.key => a = c
    BY DEF Distinct, FallbackAgents, Unassigned
  <1>5. m.from = n.from /\ m.to = n.to
    <2>1. CASE m.from = n.from
      BY <2>1, <1>1, <1>2, <1>3
    <2>2. CASE m.to = n.to
      BY <2>2, <1>1, <1>2, <1>4
    <2> QED
      BY <2>1, <2>2
  <1> QED
    BY <1>5, FallbackMoveShape

LEMMA SessionAndFallbackApart ==
  ASSUME NEW topics, NEW live, Distinct(live),
         NEW m \in SessionMoves(topics, live), NEW n \in FallbackMoves(topics, live)
  PROVE  m.from # n.from /\ m.to # n.to
  <1>1. PICK a \in Unassigned(topics, live) :
          m.to = a.key /\ SessionCandidates(topics, live, a) = {m.from}
    BY DEF SessionMoves
  <1>2. PICK c \in FallbackAgents(topics, live) :
          c.key = n.to /\ n.from \in FallbackCandidates(topics, live, c)
    BY FallbackMoveShape
  <1>3. m.from # n.from
    BY <1>2 DEF FallbackCandidates
  <1>4. SessionCandidates(topics, live, c) = {}
    BY DEF FallbackAgents
  <1>5. a.key = c.key => a = c
    BY DEF Distinct, FallbackAgents, Unassigned
  <1> QED
    BY <1>1, <1>2, <1>3, <1>4, <1>5

LEMMA MovesApart ==
  ASSUME NEW topics, NEW live, Distinct(live),
         NEW m \in PlanReassociation(topics, live), NEW n \in PlanReassociation(topics, live),
         m.from = n.from \/ m.to = n.to
  PROVE  m = n
  <1> DEFINE Exact == {[from |-> k, to |-> k] : k \in ExactKeys(topics, live)}
  <1>1. m \in Exact \cup SessionMoves(topics, live) \cup FallbackMoves(topics, live)
    BY DEF PlanReassociation
  <1>2. n \in Exact \cup SessionMoves(topics, live) \cup FallbackMoves(topics, live)
    BY DEF PlanReassociation
  <1>3. \A k \in ExactKeys(topics, live) : k \in Mapped(topics)
    BY DEF ExactKeys
  <1>4. CASE m \in Exact /\ n \in Exact
    BY <1>4
  <1>5. ASSUME NEW e \in Exact, NEW x \in SessionMoves(topics, live) \cup FallbackMoves(topics, live)
        PROVE  e.from # x.from /\ e.to # x.to
    <2>1. e.from \in ExactKeys(topics, live) /\ e.to \in Mapped(topics)
      BY <1>3
    <2>2. x.from \notin ExactKeys(topics, live) /\ x.to \notin Mapped(topics)
      BY SessionMoveShape, FallbackMoveShape
    <2> QED
      BY <2>1, <2>2
  <1>6. CASE m \in SessionMoves(topics, live) /\ n \in SessionMoves(topics, live)
    BY <1>6, SessionMovesApart
  <1>7. CASE m \in FallbackMoves(topics, live) /\ n \in FallbackMoves(topics, live)
    BY <1>7, FallbackMovesApart
  <1>8. CASE m \in SessionMoves(topics, live) /\ n \in FallbackMoves(topics, live)
    BY <1>8, SessionAndFallbackApart
  <1>9. CASE m \in FallbackMoves(topics, live) /\ n \in SessionMoves(topics, live)
    BY <1>9, SessionAndFallbackApart
  <1> HIDE DEF Exact
  <1> QED
    BY <1>1, <1>2, <1>4, <1>5, <1>6, <1>7, <1>8, <1>9

---------------------------------------------------------------------------
(* ApplyReassociation never refuses a plan PlanReassociation has made of   *)
(* the same table, whatever the table and the live agents: the daemon is   *)
(* never ended by "apply topic reassociation" (reconciler.go:348).         *)
THEOREM PlanApplies ==
  ASSUME NEW topics, NEW live, Distinct(live)
  PROVE  Applicable(topics, PlanReassociation(topics, live))
  <1> DEFINE plan == PlanReassociation(topics, live)
  <1>1. \A m, n \in plan : (m.from = n.from \/ m.to = n.to) => m = n
    BY MovesApart
  <1>2. \A m \in plan : m.from \in Mapped(topics)
    BY PlanShape
  <1>3. \A m \in plan : m.from = m.to \/ m.to \notin Mapped(topics)
    BY PlanShape
  <1> QED
    BY <1>1, <1>2, <1>3 DEF Applicable

(* No live agent of a known session is assigned an entry stored under the  *)
(* key of another known session.                                           *)
THEOREM PlanKeepsSessionsApart ==
  ASSUME NEW topics, NEW live, KeysOf(live) \subseteq Key
  PROVE  \A m \in PlanReassociation(topics, live) : ~ConflictsWith(m.from, m.to)
  <1> SUFFICES ASSUME NEW m \in PlanReassociation(topics, live)
               PROVE  ~ConflictsWith(m.from, m.to)
    OBVIOUS
  <1>1. CASE m \in {[from |-> k, to |-> k] : k \in ExactKeys(topics, live)}
    BY <1>1 DEF ConflictsWith
  <1>2. CASE m \in SessionMoves(topics, live)
    BY <1>2, SessionMoveShape DEF ConflictsWith, SameSession
  <1>3. CASE m \in FallbackMoves(topics, live)
    BY <1>3, FallbackMoveShape DEF ConflictsWith, EligibleFallback
  <1> QED
    BY <1>1, <1>2, <1>3 DEF PlanReassociation

---------------------------------------------------------------------------
(* Tables, and what the reconciler's operators on them keep.               *)

LEMMA NoEntryIsEntry == NoEntry \in Entry
  BY DEF NoEntry, Entry

(* Where the entry stored under key k after a pass comes from.             *)
ComesFrom(topics, live, k, l) ==
  \/ \E m \in PlanReassociation(topics, live) : m.from = l /\ m.to = k
  \/ /\ l = k /\ k \notin MoveSources(PlanReassociation(topics, live))
     /\ \A m \in PlanReassociation(topics, live) : m.to # k

LEMMA Applied ==
  ASSUME NEW topics \in [Key -> Entry], NEW live \in SUBSET Agent, Distinct(live),
         NEW k \in Key
  PROVE  LET new == ApplyReassociation(topics, PlanReassociation(topics, live))
         IN /\ new[k] \in Entry
            /\ \A l \in Key : ComesFrom(topics, live, k, l) => new[k] = topics[l]
            /\ new[k].thread # 0 => \E l \in Mapped(topics) : ComesFrom(topics, live, k, l)
  <1> DEFINE plan == PlanReassociation(topics, live)
             new == ApplyReassociation(topics, plan)
  <1>1. \A m \in plan : m.from \in Mapped(topics)
    BY PlanShape
  <1>2. \A m \in plan : m.from \in Key
    BY <1>1 DEF Mapped
  <1>3. CASE \E m \in plan : m.to = k
    <2>1. PICK m \in plan : m.to = k
      BY <1>3
    <2>2. \A n \in plan : n.to = k => n = m
      BY <2>1, MovesApart
    <2>3. (CHOOSE n \in plan : n.to = k) = m
      BY <2>1, <2>2
    <2>4. new[k] = topics[m.from]
      BY <1>3, <2>3 DEF ApplyReassociation
    <2> QED
      BY <1>1, <1>2, <2>1, <2>2, <2>4 DEF ComesFrom
  <1>4. CASE /\ \A m \in plan : m.to # k
             /\ k \in MoveSources(plan)
    <2>1. new[k] = NoEntry
      BY <1>4 DEF ApplyReassociation
    <2> QED
      BY <1>4, <2>1, NoEntryIsEntry DEF ComesFrom, NoEntry
  <1>5. CASE /\ \A m \in plan : m.to # k
             /\ k \notin MoveSources(plan)
    <2>1. new[k] = topics[k]
      BY <1>5 DEF ApplyReassociation
    <2> QED
      BY <1>5, <2>1 DEF ComesFrom, Mapped
  <1> QED
    BY <1>3, <1>4, <1>5

(* UpdateMetadata touches neither the topic nor what is known of its state.*)
LEMMA UpdateKeeps ==
  ASSUME NEW e \in Entry, NEW a \in Agent
  PROVE  /\ UpdateMetadata(e, a) \in Entry
         /\ \A f \in {UpdateMetadata(e, a)} :
              /\ f.thread = e.thread /\ f.name = e.name /\ f.status = e.status
              /\ f.closed = e.closed /\ f.muted = e.muted /\ f.at = e.at
  BY ZenonT(60) DEF UpdateMetadata, Entry, Agent

LEMMA ContinuedEntry ==
  ASSUME NEW topics \in [Key -> Entry], NEW live \in SUBSET Agent, Distinct(live),
         NEW k \in Key
  PROVE  LET new == Continued(topics, live)
         IN /\ new[k] \in Entry
            /\ \A l \in Key : ComesFrom(topics, live, k, l) =>
                 /\ new[k].thread = topics[l].thread /\ new[k].status = topics[l].status
                 /\ new[k].muted = topics[l].muted
            /\ new[k].thread # 0 => \E l \in Mapped(topics) : ComesFrom(topics, live, k, l)
  <1> DEFINE plan == PlanReassociation(topics, live)
             moved == ApplyReassociation(topics, plan)
             new == Continued(topics, live)
             a == CHOOSE b \in live : b.key = k
  <1>1. /\ moved[k] \in Entry
        /\ \A l \in Key : ComesFrom(topics, live, k, l) => moved[k] = topics[l]
        /\ moved[k].thread # 0 => \E l \in Mapped(topics) : ComesFrom(topics, live, k, l)
    BY Applied
  <1>2. new[k] = IF \E m \in plan : m.to = k THEN UpdateMetadata(moved[k], a) ELSE moved[k]
    BY DEF Continued, UpdateAll
  <1>3. CASE \E m \in plan : m.to = k
    <2>1. \E b \in live : b.key = k
      BY <1>3, PlanShape DEF KeysOf
    <2>2. a \in Agent
      BY <2>1
    <2>3. UpdateMetadata(moved[k], a) \in Entry
      BY <1>1, <2>2, UpdateKeeps
    <2>4. \A f \in {UpdateMetadata(moved[k], a)} :
            f.thread = moved[k].thread /\ f.status = moved[k].status /\ f.muted = moved[k].muted
      BY <1>1, <2>2, UpdateKeeps
    <2>5. /\ new[k] \in Entry /\ new[k].thread = moved[k].thread
          /\ new[k].status = moved[k].status /\ new[k].muted = moved[k].muted
      <3> HIDE DEF a, moved, new
      <3> QED BY <1>2, <1>3, <2>3, <2>4
    <2> HIDE DEF moved
    <2> QED
      BY <1>1, <2>5
  <1>4. CASE ~\E m \in plan : m.to = k
    <2>1. new[k] = moved[k]
      BY <1>2, <1>4
    <2> HIDE DEF moved
    <2> QED
      BY <1>1, <2>1
  <1> QED
    BY <1>3, <1>4

(* Every topic is still somebody's, and the entry has one place to go.     *)
LEMMA EveryEntryGoes ==
  ASSUME NEW topics, NEW live, NEW l \in Mapped(topics), KeysOf(live) \subseteq Key
  PROVE  \E k \in Key : ComesFrom(topics, live, k, l)
  <1> DEFINE plan == PlanReassociation(topics, live)
  <1>1. CASE \E m \in plan : m.from = l
    <2>1. PICK m \in plan : m.from = l
      BY <1>1
    <2>2. m.to \in Key
      BY <2>1, PlanShape
    <2> QED
      BY <2>1, <2>2 DEF ComesFrom
  <1>2. CASE ~\E m \in plan : m.from = l
    <2>1. l \notin MoveSources(plan)
      BY <1>2 DEF MoveSources
    <2>2. \A m \in plan : m.to # l
      <3> SUFFICES ASSUME NEW m \in plan, m.to = l PROVE FALSE
        OBVIOUS
      <3> QED
        BY PlanShape, <1>2
    <2>3. l \in Key
      BY DEF Mapped
    <2> QED
      BY <2>1, <2>2, <2>3 DEF ComesFrom
  <1> QED
    BY <1>1, <1>2

LEMMA OneDestination ==
  ASSUME NEW topics, NEW live, Distinct(live), NEW k, NEW j, NEW l,
         ComesFrom(topics, live, k, l), ComesFrom(topics, live, j, l)
  PROVE  k = j
  <1> DEFINE plan == PlanReassociation(topics, live)
  <1>1. ASSUME NEW x, NEW y, NEW m \in plan, m.from = l, m.to = x,
               l = y, y \notin MoveSources(plan)
        PROVE  x = y
    BY <1>1 DEF MoveSources
  <1>2. ASSUME NEW m \in plan, NEW n \in plan, m.from = n.from
        PROVE  m.to = n.to
    BY <1>2, MovesApart
  <1> QED
    BY <1>1, <1>2 DEF ComesFrom

---------------------------------------------------------------------------
(* The topics a table knows, and that each has one holder.                 *)

LEMMA ContinuedKeepsTopics ==
  ASSUME NEW topics \in [Key -> Entry], NEW live \in SUBSET Agent, Distinct(live)
  PROVE  Linked(Continued(topics, live)) = Linked(topics)
  <1> DEFINE new == Continued(topics, live)
  <1>1. \A k \in Key : \A l \in Key : ComesFrom(topics, live, k, l) => new[k].thread = topics[l].thread
    BY ContinuedEntry
  <1>2. \A k \in Key : new[k].thread # 0 => \E l \in Mapped(topics) : ComesFrom(topics, live, k, l)
    BY ContinuedEntry
  <1>3. KeysOf(live) \subseteq Key
    BY DEF KeysOf, Agent
  <1>4. \A l \in Mapped(topics) : \E k \in Key : ComesFrom(topics, live, k, l)
    BY <1>3, EveryEntryGoes
  <1> HIDE DEF new
  <1>5. ASSUME NEW t \in Linked(new) PROVE t \in Linked(topics)
    BY <1>1, <1>2 DEF Linked, Mapped
  <1>6. ASSUME NEW t \in Linked(topics) PROVE t \in Linked(new)
    <2>1. PICK l \in Mapped(topics) : topics[l].thread = t
      BY DEF Linked
    <2>2. PICK k \in Key : ComesFrom(topics, live, k, l)
      BY <1>4, <2>1
    <2>3. new[k].thread = t /\ t # 0
      BY <1>1, <2>1, <2>2 DEF Mapped
    <2> QED
      BY <2>3 DEF Linked, Mapped
  <1> QED
    BY <1>5, <1>6 DEF new

LEMMA ContinuedKeepsSingle ==
  ASSUME NEW topics \in [Key -> Entry], NEW live \in SUBSET Agent, Distinct(live),
         Single(topics)
  PROVE  Single(Continued(topics, live))
  <1> DEFINE new == Continued(topics, live)
  <1> SUFFICES ASSUME NEW k \in Mapped(new), NEW j \in Mapped(new), new[k].thread = new[j].thread
               PROVE  k = j
    BY DEF Single
  <1>1. k \in Key /\ j \in Key /\ new[k].thread # 0 /\ new[j].thread # 0
    BY DEF Mapped
  <1>2. PICK l \in Mapped(topics) : ComesFrom(topics, live, k, l)
    BY <1>1, ContinuedEntry
  <1>3. PICK i \in Mapped(topics) : ComesFrom(topics, live, j, i)
    BY <1>1, ContinuedEntry
  <1>4. l \in Key /\ i \in Key
    BY DEF Mapped
  <1>5. new[k].thread = topics[l].thread
    BY <1>1, <1>2, <1>4, ContinuedEntry
  <1>6. new[j].thread = topics[i].thread
    BY <1>1, <1>3, <1>4, ContinuedEntry
  <1>7. l = i
    BY <1>5, <1>6 DEF Single
  <1> QED
    BY <1>2, <1>3, <1>7, OneDestination

LEMMA ContinuedIsTable ==
  ASSUME NEW topics \in [Key -> Entry], NEW live \in SUBSET Agent, Distinct(live)
  PROVE  Continued(topics, live) \in [Key -> Entry]
  <1> DEFINE new == Continued(topics, live)
  <1>1. \A k \in Key : new[k] \in Entry
    BY ContinuedEntry
  <1>2. new = [k \in Key |-> new[k]]
    BY DEF Continued, UpdateAll
  <1> HIDE DEF new
  <1> QED
    BY <1>1, <1>2 DEF new

(* A table with one holder for each topic has nothing to drop.             *)
LEMMA SingleIsDeduped ==
  ASSUME NEW topics \in [Key -> Entry], Single(topics)
  PROVE  DedupeThreads(topics) = topics
  <1>1. ASSUME NEW k \in Mapped(topics)
        PROVE  KeyForThread(topics, topics[k].thread) = k
    <2>1. Holders(topics, topics[k].thread) = {k}
      BY <1>1 DEF Holders, Single
    <2>2. ~Newer(topics[k], topics[k])
      BY <1>1 DEF Newer, Mapped, Entry
    <2> QED
      BY <2>1, <2>2 DEF KeyForThread
  <1>2. \A k \in Key : DedupeThreads(topics)[k] = topics[k]
    BY <1>1 DEF DedupeThreads
  <1> QED
    BY <1>2 DEF DedupeThreads

---------------------------------------------------------------------------
(* Events.                                                                 *)

LEMMA OrderIsBijection ==
  ASSUME NEW S, IsFiniteSet(S)
  PROVE  Cardinality(S) \in Nat /\ InSomeOrder(S) \in Bijection(1..Cardinality(S), S)
  <1>1. Cardinality(S) \in Nat /\ ExistsBijection(1..Cardinality(S), S)
    BY FS_CardinalityType
  <1>2. PICK f \in Bijection(1..Cardinality(S), S) : TRUE
    BY <1>1 DEF ExistsBijection
  <1>3. f \in [1..Cardinality(S) -> S] /\ \A i, j \in 1..Cardinality(S) : f[i] = f[j] => i = j
    BY <1>2 DEF Bijection, Injection, IsInjective
  <1>4. /\ InSomeOrder(S) \in [1..Cardinality(S) -> S]
        /\ \A i, j \in 1..Cardinality(S) : InSomeOrder(S)[i] = InSomeOrder(S)[j] => i = j
    BY <1>1, <1>3 DEF InSomeOrder
  <1>5. InSomeOrder(S) \in Injection(1..Cardinality(S), S)
    BY <1>4 DEF Injection, IsInjective
  <1>6. Cardinality(1..Cardinality(S)) = Cardinality(S)
    BY <1>1, FS_Interval
  <1>7. InSomeOrder(S) \in Surjection(1..Cardinality(S), S)
    BY <1>5, <1>6, FS_Injection
  <1> QED
    BY <1>1, <1>5, <1>7 DEF Bijection

LEMMA OrderedSet ==
  ASSUME NEW S, IsFiniteSet(S)
  PROVE  Cardinality(S) \in Nat /\ InSomeOrder(S) \in [1..Cardinality(S) -> S]
  BY OrderIsBijection DEF Bijection, Injection

LEMMA EventsTyped ==
  ASSUME NEW S \in SUBSET Agent, IsFiniteSet(S), NEW kind \in {"appeared", "changed", "gone"}
  PROVE  EventsOf(kind, S) \in Seq(Event)
  <1> DEFINE n == Cardinality(S)
             ordered == InSomeOrder(S)
             ev(i) == [kind |-> kind, agent |-> ordered[i]]
  <1>1. n \in Nat /\ ordered \in [1..n -> S]
    BY OrderedSet
  <1> HIDE DEF n, ordered
  <1>2. \A i \in 1..n : ev(i) \in Event
    BY <1>1 DEF Event
  <1> HIDE DEF ev
  <1>3. [i \in 1..n |-> ev(i)] \in Seq(Event)
    BY <1>1, <1>2, IsASeq
  <1> QED
    BY <1>3 DEF EventsOf, n, ordered, ev

LEMMA DifferenceTyped ==
  ASSUME NEW V \in SUBSET Agent, NEW W \in SUBSET Agent, IsFiniteSet(V), IsFiniteSet(W)
  PROVE  SnapshotEvents(V, W) \in Seq(Event)
  <1>1. /\ Replacements(V, W) \subseteq W /\ GoneFrom(V, W) \subseteq V
        /\ NewIn(V, W) \ Replacements(V, W) \subseteq W /\ ChangedIn(V, W) \subseteq W
    BY DEF Replacements, GoneFrom, NewIn, ChangedIn
  <1>2. \A S \in (SUBSET V) \cup (SUBSET W) : IsFiniteSet(S) /\ S \in SUBSET Agent
    BY FS_Subset
  <1>3. ASSUME NEW S \in (SUBSET V) \cup (SUBSET W), NEW kind \in {"appeared", "changed", "gone"}
        PROVE  EventsOf(kind, S) \in Seq(Event)
    BY <1>2, EventsTyped
  <1>4. /\ EventsOf("appeared", Replacements(V, W)) \in Seq(Event)
        /\ EventsOf("gone", GoneFrom(V, W)) \in Seq(Event)
        /\ EventsOf("appeared", NewIn(V, W) \ Replacements(V, W)) \in Seq(Event)
        /\ EventsOf("changed", ChangedIn(V, W)) \in Seq(Event)
    BY <1>1, <1>3
  <1> QED
    BY <1>4, ConcatProperties DEF SnapshotEvents

---------------------------------------------------------------------------
(* A pass treats the keys of a pane by the entries and the agents of that  *)
(* pane alone.                                                             *)
SameIn(p, tt, uu, live, others) ==
  /\ \A k \in Key : k.pane = p => tt[k] = uu[k]
  /\ \A a \in live \cup others : a.key.pane = p => (a \in live <=> a \in others)

LEMMA SameMapped ==
  ASSUME NEW tt, NEW uu, NEW L, NEW M, NEW p, SameIn(p, tt, uu, L, M)
  PROVE  /\ \A k : k.pane = p => (k \in Mapped(tt) <=> k \in Mapped(uu))
         /\ \A k : k.pane = p => (k \in ExactKeys(tt, L) <=> k \in ExactKeys(uu, M))
         /\ \A a : a.key.pane = p => (a \in Unassigned(tt, L) <=> a \in Unassigned(uu, M))
  <1>1. \A k : k.pane = p => (k \in Mapped(tt) <=> k \in Mapped(uu))
    BY DEF SameIn, Mapped
  <1>2. \A k : k.pane = p => (k \in KeysOf(L) <=> k \in KeysOf(M))
    BY DEF SameIn, KeysOf
  <1>3. \A a : a.key.pane = p => (a \in L <=> a \in M)
    BY DEF SameIn
  <1> QED
    BY <1>1, <1>2, <1>3 DEF ExactKeys, Unassigned

LEMMA SameCandidates ==
  ASSUME NEW tt, NEW uu, NEW L, NEW M, NEW p, SameIn(p, tt, uu, L, M), NEW a, a.key.pane = p
  PROVE  SessionCandidates(tt, L, a) = SessionCandidates(uu, M, a)
  <1>1. \A k : SameSession(k, a.key) => k.pane = p
    BY DEF SameSession
  <1> QED
    BY <1>1, SameMapped DEF SessionCandidates

LEMMA SameSessionMoves ==
  ASSUME NEW tt, NEW uu, NEW L, NEW M, NEW p, SameIn(p, tt, uu, L, M), NEW m \in SessionMoves(tt, L),
         m.from.pane = p \/ m.to.pane = p
  PROVE  m \in SessionMoves(uu, M) /\ m.from.pane = p /\ m.to.pane = p
  <1>1. PICK a \in Unassigned(tt, L) :
          /\ m.to = a.key /\ SessionCandidates(tt, L, a) = {m.from}
          /\ \A b \in Unassigned(tt, L) : m.from \in SessionCandidates(tt, L, b) => b.key = a.key
    BY DEF SessionMoves
  <1>2. m.from \in Mapped(tt) /\ SameSession(m.from, a.key)
    BY <1>1 DEF SessionCandidates
  <1>3. m.from.pane = p /\ a.key.pane = p
    BY <1>1, <1>2 DEF SameSession
  <1>4. a \in Unassigned(uu, M) /\ m.from \in Mapped(uu)
    BY <1>2, <1>3, SameMapped
  <1>5. SessionCandidates(uu, M, a) = {m.from}
    BY <1>1, <1>3, SameCandidates
  <1>6. ASSUME NEW b \in Unassigned(uu, M), m.from \in SessionCandidates(uu, M, b) PROVE b.key = a.key
    <2>1. b.key.pane = p
      BY <1>3, <1>6 DEF SessionCandidates, SameSession
    <2> QED
      BY <1>1, <1>6, <2>1, SameMapped, SameCandidates
  <1>7. m \in [from : Mapped(uu), to : KeysOf(Unassigned(uu, M))]
    <2>1. m \in [from : Mapped(tt), to : KeysOf(Unassigned(tt, L))]
      BY DEF SessionMoves
    <2> QED
      BY <1>1, <1>4, <2>1 DEF KeysOf
  <1> QED
    BY <1>1, <1>3, <1>4, <1>5, <1>6, <1>7 DEF SessionMoves

LEMMA SameTurned ==
  ASSUME NEW tt, NEW uu, NEW L, NEW M, NEW p, SameIn(p, tt, uu, L, M)
  PROVE  SameIn(p, uu, tt, M, L)
  BY DEF SameIn

LEMMA SameFallback ==
  ASSUME NEW tt, NEW uu, NEW L, NEW M, NEW p, SameIn(p, tt, uu, L, M), NEW a, a.key.pane = p
  PROVE  /\ a \in FallbackAgents(tt, L) <=> a \in FallbackAgents(uu, M)
         /\ FallbackCandidates(tt, L, a) = FallbackCandidates(uu, M, a)
         /\ FallbackChoice(tt, L, a) = FallbackChoice(uu, M, a)
  <1>1. a \in FallbackAgents(tt, L) <=> a \in FallbackAgents(uu, M)
    BY SameMapped, SameCandidates DEF FallbackAgents
  <1>2. ASSUME NEW k, k.pane = p
        PROVE  (\A m \in SessionMoves(tt, L) : m.from # k) <=> (\A m \in SessionMoves(uu, M) : m.from # k)
    BY <1>2, SameSessionMoves, SameTurned
  <1>3. ASSUME NEW k
        PROVE  k \in FallbackCandidates(tt, L, a) <=> k \in FallbackCandidates(uu, M, a)
    <2>1. CASE k.pane = p
      <3>1. k \in Mapped(tt) \ ExactKeys(tt, L) <=> k \in Mapped(uu) \ ExactKeys(uu, M)
        BY <2>1, SameMapped
      <3>2. k \in Mapped(tt) => tt[k] = uu[k]
        BY <2>1 DEF SameIn, Mapped
      <3> QED
        BY <1>2, <2>1, <3>1, <3>2 DEF FallbackCandidates
    <2>2. CASE k.pane # p
      BY <2>2 DEF FallbackCandidates, EligibleFallback
    <2> QED
      BY <2>1, <2>2
  <1>4. FallbackCandidates(tt, L, a) = FallbackCandidates(uu, M, a)
    BY <1>3 DEF FallbackCandidates
  <1>5. \A k \in FallbackCandidates(tt, L, a) : tt[k] = uu[k]
    BY DEF FallbackCandidates, EligibleFallback, Mapped, SameIn
  <1>6. {k \in FallbackCandidates(tt, L, a) : Live(tt[k])} = {k \in FallbackCandidates(uu, M, a) : Live(uu[k])}
    BY <1>4, <1>5
  <1> QED
    BY <1>1, <1>4, <1>6 DEF FallbackChoice

LEMMA SameFallbackMoves ==
  ASSUME NEW tt, NEW uu, NEW L, NEW M, NEW p, SameIn(p, tt, uu, L, M), NEW m \in FallbackMoves(tt, L),
         m.from.pane = p \/ m.to.pane = p
  PROVE  m \in FallbackMoves(uu, M) /\ m.from.pane = p /\ m.to.pane = p
  <1>1. PICK a \in FallbackAgents(tt, L) :
          /\ m.to = a.key /\ FallbackChoice(tt, L, a) = {m.from}
          /\ \A b \in FallbackAgents(tt, L) : m.from \in FallbackCandidates(tt, L, b) => b.key = a.key
    BY DEF FallbackMoves
  <1>2. m.from \in FallbackCandidates(tt, L, a)
    BY <1>1 DEF FallbackChoice
  <1>3. m.from \in Mapped(tt) /\ m.from.pane = p /\ a.key.pane = p
    BY <1>1, <1>2 DEF FallbackCandidates, EligibleFallback
  <1>4. a \in FallbackAgents(uu, M) /\ m.from \in Mapped(uu)
    BY <1>3, SameMapped, SameFallback
  <1>5. FallbackChoice(uu, M, a) = {m.from}
    BY <1>1, <1>3, SameFallback
  <1>6. ASSUME NEW b \in FallbackAgents(uu, M), m.from \in FallbackCandidates(uu, M, b) PROVE b.key = a.key
    <2>1. b.key.pane = p
      BY <1>3, <1>6 DEF FallbackCandidates, EligibleFallback
    <2> QED
      BY <1>1, <1>6, <2>1, SameFallback
  <1>7. m \in [from : Mapped(uu), to : KeysOf(FallbackAgents(uu, M))]
    <2>1. m \in [from : Mapped(tt), to : KeysOf(FallbackAgents(tt, L))]
      BY DEF FallbackMoves
    <2> QED
      BY <1>1, <1>4, <2>1 DEF KeysOf
  <1> QED
    BY <1>1, <1>3, <1>4, <1>5, <1>6, <1>7 DEF FallbackMoves

LEMMA SamePlan ==
  ASSUME NEW tt, NEW uu, NEW L, NEW M, NEW p, SameIn(p, tt, uu, L, M), NEW m \in PlanReassociation(tt, L),
         m.from.pane = p \/ m.to.pane = p
  PROVE  m \in PlanReassociation(uu, M) /\ m.from.pane = p /\ m.to.pane = p
  <1>1. CASE m \in {[from |-> k, to |-> k] : k \in ExactKeys(tt, L)}
    BY <1>1, SameMapped DEF PlanReassociation
  <1>2. CASE m \in SessionMoves(tt, L)
    BY <1>2, SameSessionMoves DEF PlanReassociation
  <1>3. CASE m \in FallbackMoves(tt, L)
    BY <1>3, SameFallbackMoves DEF PlanReassociation
  <1> QED
    BY <1>1, <1>2, <1>3 DEF PlanReassociation

LEMMA SameContinued ==
  ASSUME NEW tt \in [Key -> Entry], NEW uu \in [Key -> Entry], NEW L, NEW M, Distinct(L), Distinct(M),
         NEW k \in Key, SameIn(k.pane, tt, uu, L, M)
  PROVE  Continued(tt, L)[k] = Continued(uu, M)[k]
  <1> DEFINE P == PlanReassociation(tt, L)
             Q == PlanReassociation(uu, M)
  <1>1. \A m : m.to = k \/ m.from = k => (m \in P <=> m \in Q)
    BY SamePlan, SameTurned
  <1>2. \A m \in P : m.to = k \/ m.from = k => m.from.pane = k.pane /\ m.from \in Key
    BY SamePlan, PlanShape DEF Mapped
  <1>3. (\E m \in P : m.to = k) <=> (\E m \in Q : m.to = k)
    BY <1>1
  <1>4. k \in MoveSources(P) <=> k \in MoveSources(Q)
    BY <1>1 DEF MoveSources
  <1>5. tt[k] = uu[k]
    BY DEF SameIn
  <1> HIDE DEF P, Q
  <1>6. CASE \E m \in P : m.to = k
    <2>1. PICK m \in P : m.to = k
      BY <1>6
    <2>2. m \in Q
      BY <1>1, <2>1
    <2>3. \A n \in P : n.to = k => n = m
      BY <2>1, MovesApart DEF P
    <2>4. \A n \in Q : n.to = k => n = m
      BY <2>1, <2>2, MovesApart DEF Q
    <2>5. (CHOOSE n \in P : n.to = k) = m /\ (CHOOSE n \in Q : n.to = k) = m
      BY <2>1, <2>2, <2>3, <2>4
    <2>6. ApplyReassociation(tt, P)[k] = tt[m.from] /\ ApplyReassociation(uu, Q)[k] = uu[m.from]
      BY <1>3, <1>6, <2>5 DEF ApplyReassociation
    <2>7. tt[m.from] = uu[m.from]
      BY <1>2, <2>1 DEF SameIn
    <2>8. PICK a \in L : a.key = k
      BY <2>1, PlanShape DEF P, KeysOf
    <2>9. a \in M
      BY <2>8 DEF SameIn
    <2>10. (CHOOSE b \in L : b.key = k) = a /\ (CHOOSE b \in M : b.key = k) = a
      BY <2>8, <2>9 DEF Distinct
    <2>11. Continued(tt, L)[k] = UpdateMetadata(tt[m.from], a)
      BY <1>6, <2>6, <2>10 DEF Continued, UpdateAll, P
    <2>12. Continued(uu, M)[k] = UpdateMetadata(uu[m.from], a)
      BY <1>3, <1>6, <2>6, <2>10 DEF Continued, UpdateAll, Q
    <2> QED
      BY <2>7, <2>11, <2>12
  <1>7. CASE ~\E m \in P : m.to = k
    <2>1. ApplyReassociation(tt, P)[k] = ApplyReassociation(uu, Q)[k]
      BY <1>3, <1>4, <1>5, <1>7 DEF ApplyReassociation
    <2>2. Continued(tt, L)[k] = ApplyReassociation(tt, P)[k]
      BY <1>7 DEF Continued, UpdateAll, P
    <2>3. Continued(uu, M)[k] = ApplyReassociation(uu, Q)[k]
      BY <1>3, <1>7 DEF Continued, UpdateAll, Q
    <2> QED
      BY <2>1, <2>2, <2>3
  <1> QED
    BY <1>6, <1>7

(* A pane without agents is left as it is.                                 *)
LEMMA OthersStay ==
  ASSUME NEW tt \in [Key -> Entry], NEW L, NEW k \in Key, \A a \in L : a.key.pane # k.pane
  PROVE  Continued(tt, L)[k] = tt[k]
  <1> DEFINE P == PlanReassociation(tt, L)
  <1>0. SameIn(k.pane, tt, tt, L, {})
    BY DEF SameIn
  <1>1. PlanReassociation(tt, {}) = {}
    BY PlanShape DEF KeysOf
  <1>2. \A m \in P : m.to # k /\ m.from # k
    BY <1>0, <1>1, SamePlan
  <1> HIDE DEF P
  <1>3. k \notin MoveSources(P)
    BY <1>2 DEF MoveSources
  <1>4. ApplyReassociation(tt, P)[k] = tt[k]
    BY <1>2, <1>3 DEF ApplyReassociation
  <1> QED
    BY <1>2, <1>4 DEF Continued, UpdateAll, P

(* An agent alone in its pane may be handled before the others.            *)
LEMMA OneFirst ==
  ASSUME NEW tt \in [Key -> Entry], NEW L \in SUBSET Agent, Distinct(L), NEW a \in L,
         \A b \in L : b.key.pane = a.key.pane => b = a
  PROVE  Continued(Continued(tt, {a}), L \ {a}) = Continued(tt, L)
  <1> DEFINE first == Continued(tt, {a})
             both == Continued(first, L \ {a})
  <1>1. Distinct({a}) /\ Distinct(L \ {a}) /\ {a} \in SUBSET Agent /\ L \ {a} \in SUBSET Agent
    BY DEF Distinct
  <1>2. first \in [Key -> Entry]
    BY <1>1, ContinuedIsTable
  <1>3. both \in [Key -> Entry] /\ Continued(tt, L) \in [Key -> Entry]
    BY <1>1, <1>2, ContinuedIsTable
  <1> HIDE DEF first, both
  <1>4. ASSUME NEW k \in Key PROVE both[k] = Continued(tt, L)[k]
    <2>1. CASE k.pane = a.key.pane
      <3>1. both[k] = first[k]
        BY <1>2, <2>1, OthersStay DEF both
      <3>2. SameIn(k.pane, tt, tt, {a}, L)
        BY <2>1 DEF SameIn
      <3>3. first[k] = Continued(tt, L)[k]
        BY <1>1, <3>2, SameContinued DEF first
      <3> QED
        BY <3>1, <3>3
    <2>2. CASE k.pane # a.key.pane
      <3>1. \A l \in Key : l.pane = k.pane => first[l] = tt[l]
        BY <2>2, OthersStay DEF first
      <3>2. SameIn(k.pane, first, tt, L \ {a}, L)
        BY <2>2, <3>1 DEF SameIn
      <3> QED
        BY <1>1, <1>2, <3>2, SameContinued DEF both
    <2> QED
      BY <2>1, <2>2
  <1>5. both = Continued(tt, L)
    BY <1>3, <1>4
  <1> QED
    BY <1>5 DEF both, first
=============================================================================
