-------------------------- MODULE ReconcilerProofs --------------------------
(***************************************************************************)
(* The safety of the topic mirror, for any keys, agents, topics, faults    *)
(* and bounds: the inductive invariant IInv and what follows from it.      *)
(*                                                                         *)
(* Why IInv has its parts.  NoLostTopic speaks of Telegram and the file,   *)
(* so it needs DiskOK to say that the loop, which decides by its memory,   *)
(* decides by the file.  A creation marks its key first; that no topic of  *)
(* that key is unknown at this moment is NoLostTopic itself, and ForumOK   *)
(* carries it to the answer, which is where OneUnknownTopic could break.   *)
(* StepOK is what the guards of the earlier steps leave for the later ones.*)
(* The action properties come last: each action moves entries along a plan *)
(* whose pairs do not conflict, drops them, or links a topic nobody has.   *)
(***************************************************************************)
EXTENDS Reconciler, MappingProofs

---------------------------------------------------------------------------
(* Type correctness.  A step types each group of variables by what it does *)
(* to that group: the first lemmas are about the ways a step ends and the  *)
(* operators on tables, TypesHold goes through the actions.                *)

(* Tables whose topics are within the bound.                               *)
LEMMA TablesAreTables == Tables \subseteq [Key -> Entry]
  BY DEF Tables

LEMMA NoEntryInBounds == NoEntry \in {e \in Entry : e.thread \in 0..MaxThread}
  BY NoEntryIsEntry, BoundsAssumption DEF NoEntry

LEMMA AnyKeyIsKey == AnyKey \in Key
  BY KeyAssumption DEF AnyKey

LEMMA ForgetInTables ==
  ASSUME NEW tt \in Tables, NEW k \in Key
  PROVE  Forget(tt, k) \in Tables
  BY NoEntryInBounds DEF Forget, Tables

LEMMA ContinuedInTables ==
  ASSUME NEW tt \in Tables, NEW L \in SUBSET Agent, Distinct(L)
  PROVE  Continued(tt, L) \in Tables
  <1> DEFINE new == Continued(tt, L)
  <1>1. new \in [Key -> Entry]
    BY TablesAreTables, ContinuedIsTable
  <1>2. ASSUME NEW k \in Key PROVE new[k].thread \in 0..MaxThread
    <2>1. CASE new[k].thread = 0
      BY <2>1, BoundsAssumption
    <2>2. CASE new[k].thread # 0
      <3>1. PICK l \in Mapped(tt) : ComesFrom(tt, L, k, l)
        BY <2>2, TablesAreTables, ContinuedEntry
      <3>2. l \in Key
        BY DEF Mapped
      <3>3. new[k].thread = tt[l].thread
        BY <3>1, <3>2, TablesAreTables, ContinuedEntry
      <3> QED
        BY <3>2, <3>3 DEF Tables
    <2> QED
      BY <2>1, <2>2
  <1> HIDE DEF new
  <1>3. new \in Tables
    BY <1>1, <1>2 DEF Tables
  <1> QED
    BY <1>3 DEF new

LEMMA DedupedInTables ==
  ASSUME NEW tt \in Tables
  PROVE  DedupeThreads(tt) \in Tables
  BY NoEntryInBounds DEF DedupeThreads, Tables

(* The snapshots: agents with distinct keys, finitely many.                *)
LEMMA WorldTyped ==
  ASSUME NEW W \in Worlds \cup {{}}
  PROVE  W \in SUBSET Agent /\ IsFiniteSet(W) /\ Distinct(W) /\ KeysOf(W) \subseteq Key
  BY WorldsAssumption, FS_EmptySet DEF Distinct, KeysOf, Agent

LEMMA OneAgentTyped ==
  ASSUME NEW a \in Agent
  PROVE  {a} \in SUBSET Agent /\ Distinct({a}) /\ a.key \in Key
  BY DEF Distinct, Agent

LEMMA MineIsAgent ==
  ASSUME agents \subseteq Agent, NEW k \in KeysOf(agents)
  PROVE  Mine(k) \in agents /\ Mine(k).key = k
  BY DEF Mine, KeysOf

LEMMA SnapshotTyped ==
  ASSUME NEW V \in Worlds \cup {{}}, NEW W \in Worlds \cup {{}}
  PROVE  SnapshotEvents(V, W) \in Seq(Event)
  BY WorldTyped, DifferenceTyped

---------------------------------------------------------------------------
(* How a step ends.                                                        *)

LEMMA Unmoved ==
  ASSUME TypeOK
  PROVE  /\ UNCHANGED life => LifeOK'
         /\ UNCHANGED tables => TablesOK'
         /\ UNCHANGED memory => MemoryOK'
         /\ UNCHANGED work => WorkOK'
         /\ UNCHANGED herd => HerdOK'
         /\ UNCHANGED forum => ForumTyped'
         /\ UNCHANGED env => EnvOK'
  BY DEF TypeOK, life, tables, memory, work, herd, forum, env,
         LifeOK, TablesOK, MemoryOK, WorkOK, HerdOK, ForumTyped, EnvOK

LEMMA GotoTyped ==
  ASSUME TypeOK, NEW step \in Steps, NEW k \in Key, Goto(step, k)
  PROVE  WorkOK'
  BY DEF TypeOK, WorkOK, Goto

LEMMA OverTyped ==
  ASSUME TypeOK, NEW next \in Phases, NEW keep \in SUBSET Key, Over(next, keep)
  PROVE  WorkOK'
  <1>1. "none" \in Steps
    BY DEF Steps
  <1> QED
    BY <1>1, AnyKeyIsKey, BoundsAssumption DEF TypeOK, WorkOK, Over

LEMMA ReturnTyped ==
  ASSUME TypeOK, Return
  PROVE  WorkOK'
  <1>1. (IF phase = "one" THEN "idle" ELSE phase) \in Phases
    BY DEF TypeOK, WorkOK, Phases
  <1>2. left \in SUBSET Key
    BY DEF TypeOK, WorkOK
  <1> QED
    BY <1>1, <1>2, OverTyped DEF Return

LEMMA FailTyped ==
  ASSUME TypeOK, Fail
  PROVE  WorkOK'
  <1>1. {} \in SUBSET Key /\ {"events", "reconcile", "stop", "idle"} \subseteq Phases
    BY DEF Phases
  <1>2. \E next \in {"events", "reconcile", "stop", "idle"} : Over(next, {})
    BY DEF Fail
  <1> QED
    BY <1>1, <1>2, OverTyped

Records == [topics : Tables, pending : SUBSET Key]
Ends == {"stopped", "crash", "save", "forbidden", "create", "intent"}

LEMMA DownTyped ==
  ASSUME TypeOK, NEW why \in Ends, NEW saved \in Records, Down(why, saved)
  PROVE  LifeOK' /\ TablesOK' /\ MemoryOK' /\ WorkOK' /\ HerdOK'
  <1>1. LifeOK' /\ TablesOK' /\ MemoryOK'
    BY DEF Down, Ends, Records, LifeOK, TablesOK, MemoryOK
  <1>2. WorkOK'
    <2>1. batch' = <<>> /\ <<>> \in Seq(Event)
      BY EmptySeq DEF Down
    <2>2. phase' \in Phases /\ at' \in Steps
      BY DEF Down, Phases, Steps
    <2>3. key' \in Key /\ left' \subseteq Key /\ force' \in BOOLEAN
      BY AnyKeyIsKey DEF Down
    <2>4. made' \in 0..MaxThread
      BY BoundsAssumption DEF Down
    <2> QED
      BY <2>1, <2>2, <2>3, <2>4 DEF WorkOK
  <1>3. HerdOK'
    BY DEF Down, HerdOK
  <1> QED
    BY <1>1, <1>2, <1>3

LEMMA FatalTyped ==
  ASSUME TypeOK, NEW why \in Ends, Fatal(why)
  PROVE  LifeOK' /\ TablesOK' /\ MemoryOK' /\ WorkOK' /\ HerdOK'
  BY DownTyped DEF TypeOK, TablesOK, Records, Fatal

LEMMA SaveFailsTyped ==
  ASSUME TypeOK, SaveFails
  PROVE  LifeOK' /\ TablesOK' /\ MemoryOK' /\ WorkOK' /\ HerdOK'
  BY FatalTyped DEF SaveFails, Ends

LEMMA SavedTyped ==
  ASSUME NEW new \in Tables, NEW pend \in SUBSET Key, Saved(new, pend)
  PROVE  TablesOK'
  BY DEF Saved, TablesOK

LEMMA TouchTyped ==
  ASSUME TypeOK, NEW k \in Key, NEW e \in Entry, e.thread \in 0..MaxThread
  PROVE  Touch(k, e) \in Tables
  BY DEF TypeOK, TablesOK, EnvOK, Touch, Tables, Entry

LEMMA EffectTyped ==
  ASSUME TypeOK, NEW t, NEW v, t \in Thread => v \in TopicState,
         UNCHANGED forum \/ Effect(t, v)
  PROVE  ForumTyped'
  <1>1. CASE UNCHANGED forum
    BY <1>1, Unmoved
  <1>2. CASE Effect(t, v)
    <2>1. [tg EXCEPT ![t] = v] \in [Thread -> TopicState]
      <3>1. CASE t \in Thread
        BY <3>1 DEF TypeOK, ForumTyped
      <3>2. CASE t \notin Thread
        BY <3>2 DEF TypeOK, ForumTyped
      <3> QED
        BY <3>1, <3>2
    <2> QED
      BY <1>2, <2>1 DEF TypeOK, ForumTyped, Effect
  <1> QED
    BY <1>1, <1>2

LEMMA FailPolicyTyped ==
  ASSUME TypeOK, NEW t, NEW v, t \in Thread => v \in TopicState, FailPolicy(t, v)
  PROVE  LifeOK' /\ TablesOK' /\ MemoryOK' /\ WorkOK' /\ HerdOK' /\ ForumTyped'
  <1>1. ForumTyped'
    BY EffectTyped DEF FailPolicy, Skipped, Survived, MaybeEffect, Forbidden
  <1>2. CASE SaveFails
    BY <1>1, <1>2, SaveFailsTyped
  <1>3. CASE Fatal("forbidden")
    BY <1>1, <1>3, FatalTyped DEF Ends
  <1>4. CASE /\ Saved(Forget(topics, key), pending) /\ Return
             /\ UNCHANGED <<life, memory, herd>>
    <2>1. TablesOK'
      BY <1>4, ForgetInTables, SavedTyped DEF TypeOK, TablesOK, WorkOK
    <2>2. UNCHANGED life /\ UNCHANGED memory /\ UNCHANGED herd
      BY <1>4
    <2> QED
      BY <1>1, <1>4, <2>1, <2>2, ReturnTyped, Unmoved
  <1>5. CASE (Return \/ Fail) /\ UNCHANGED <<life, tables, memory, herd>>
    <2>1. UNCHANGED life /\ UNCHANGED tables /\ UNCHANGED memory /\ UNCHANGED herd
      BY <1>5
    <2> QED
      BY <1>1, <1>5, <2>1, ReturnTyped, FailTyped, Unmoved
  <1> QED
    BY <1>2, <1>3, <1>4, <1>5 DEF FailPolicy, Forbidden

LEMMA AnsweredTyped ==
  ASSUME TypeOK, NEW t, NEW v, NEW next \in Steps, t \in Thread => v \in TopicState,
         Answered(t, v, next)
  PROVE  TypeOK'
  <1>1. EnvOK'
    BY Unmoved DEF Answered
  <1>2. CASE FailPolicy(t, v)
    BY <1>1, <1>2, FailPolicyTyped DEF TypeOK
  <1>3. CASE Succeeds(t, v) /\ Goto(next, key) /\ UNCHANGED <<life, tables, memory, herd>>
    <2>1. UNCHANGED life /\ UNCHANGED tables /\ UNCHANGED memory /\ UNCHANGED herd
      BY <1>3
    <2>2. ForumTyped'
      BY <1>3, EffectTyped DEF Succeeds
    <2>3. WorkOK'
      BY <1>3, GotoTyped DEF TypeOK, WorkOK
    <2> QED
      BY <1>1, <2>1, <2>2, <2>3, Unmoved DEF TypeOK
  <1> QED
    BY <1>2, <1>3 DEF Answered

LEMMA RecordedTyped ==
  ASSUME TypeOK, NEW e \in Entry, e.thread \in 0..MaxThread, NEW next \in Steps, Recorded(e, next)
  PROVE  TypeOK'
  <1>1. ForumTyped' /\ EnvOK'
    BY Unmoved DEF Recorded
  <1>2. CASE SaveFails
    BY <1>1, <1>2, SaveFailsTyped DEF TypeOK
  <1>3. CASE /\ Saved(Touch(key, e), pending)
             /\ (IF next = "none" THEN Return ELSE Goto(next, key))
             /\ UNCHANGED <<life, memory, herd>>
    <2>1. key \in Key /\ pending \in SUBSET Key
      BY DEF TypeOK, WorkOK, TablesOK
    <2>2. TablesOK'
      BY <1>3, <2>1, TouchTyped, SavedTyped
    <2>3. WorkOK'
      BY <1>3, <2>1, ReturnTyped, GotoTyped
    <2>4. UNCHANGED life /\ UNCHANGED memory /\ UNCHANGED herd
      BY <1>3
    <2> QED
      BY <1>1, <2>2, <2>3, <2>4, Unmoved DEF TypeOK
  <1> QED
    BY <1>2, <1>3 DEF Recorded

LEMMA ProceedTyped ==
  ASSUME TypeOK, NEW step \in Steps, Proceed(step)
  PROVE  TypeOK'
  <1>1. WorkOK'
    BY GotoTyped DEF Proceed, TypeOK, WorkOK
  <1> QED
    BY <1>1, Unmoved DEF Proceed, TypeOK

LEMMA QuitTyped ==
  ASSUME TypeOK, Quit
  PROVE  TypeOK'
  BY ReturnTyped, Unmoved DEF Quit, TypeOK

---------------------------------------------------------------------------
(* The operations on one agent.  StepOK says that the agent or the entry a *)
(* step works on is there.                                                 *)

LEMMA EntryHere ==
  ASSUME TypeOK
  PROVE  /\ key \in Key /\ topics \in Tables /\ pending \in SUBSET Key
         /\ topics[key] \in Entry /\ topics[key].thread \in 0..MaxThread
         /\ disk \in Records
  BY DEF TypeOK, WorkOK, TablesOK, Tables, Records

LEMMA MineTyped ==
  ASSUME TypeOK, StepOK, at \in StepsOnAgents
  PROVE  Mine(key) \in Agent
  BY MineIsAgent DEF TypeOK, MemoryOK, StepOK

(* What a call would leave the topic in is a state of a topic.             *)
LEMMA CallsTyped ==
  ASSUME TypeOK, NEW t \in Thread
  PROVE  /\ \A s \in {"open", "closed", "deleted"} : [tg[t] EXCEPT !.state = s] \in TopicState
         /\ [tg[t] EXCEPT !.status = Exited] \in TopicState
         /\ \A a \in Agent : \A parts : Shown(t, a, parts) \in TopicState
  BY ZenonT(60) DEF TypeOK, ForumTyped, TopicState, Agent, Shown

LEMMA MakesTyped ==
  ASSUME TypeOK, StepOK, at \in StepsOnAgents, NEW t \in Thread, Makes(t),
         strays' \subseteq Thread
  PROVE  ForumTyped'
  <1>1. Mine(key) \in Agent /\ key \in Key
    BY MineTyped, EntryHere
  <1>2. [state |-> "open", name |-> Mine(key).name, status |-> Mine(key).status] \in TopicState
    BY <1>1 DEF TopicState, Agent
  <1> QED
    BY <1>1, <1>2 DEF TypeOK, ForumTyped, Makes

LEMMA CreateTyped == TypeOK /\ StepOK /\ Create => TypeOK'
  <1>1. {"revive", "intent"} \subseteq Steps
    BY DEF Steps
  <1> QED
    BY <1>1, ProceedTyped, QuitTyped DEF Create

LEMMA IntentTyped == TypeOK /\ StepOK /\ Intent => TypeOK'
  <1> SUFFICES ASSUME TypeOK, Intent PROVE TypeOK'
    OBVIOUS
  <1>1. ForumTyped' /\ EnvOK'
    BY Unmoved DEF Intent
  <1>2. CASE Fatal("intent") \/ SaveFails
    BY <1>1, <1>2, FatalTyped, SaveFailsTyped DEF TypeOK, Ends
  <1>3. CASE /\ Saved(topics, pending \cup {key}) /\ Goto("creating", key)
             /\ UNCHANGED <<life, memory, herd>>
    <2>1. pending \cup {key} \in SUBSET Key /\ "creating" \in Steps
      BY EntryHere DEF Steps
    <2>2. TablesOK' /\ WorkOK'
      BY <1>3, <2>1, EntryHere, SavedTyped, GotoTyped
    <2>3. UNCHANGED life /\ UNCHANGED memory /\ UNCHANGED herd
      BY <1>3
    <2> QED
      BY <1>1, <2>2, <2>3, Unmoved DEF TypeOK
  <1> QED
    BY <1>2, <1>3 DEF Intent

LEMMA CreatingTyped == TypeOK /\ StepOK /\ Creating => TypeOK'
  <1> SUFFICES ASSUME TypeOK, StepOK, Creating PROVE TypeOK'
    OBVIOUS
  <1>1. EnvOK' /\ at \in StepsOnAgents /\ key \in Key
    BY Unmoved, EntryHere DEF Creating, StepsOnAgents
  <1>2. strays \subseteq Thread /\ Fresh \subseteq Thread
    BY DEF TypeOK, ForumTyped, Fresh
  <1>3. ASSUME UNCHANGED forum \/ (UNCHANGED strays /\ \E t \in Fresh : Makes(t))
        PROVE  ForumTyped'
    BY <1>1, <1>2, <1>3, MakesTyped, Unmoved
  <1>4. CASE /\ canManage
             /\ \E t \in Fresh : Makes(t) /\ made' = t
             /\ at' = "link" /\ UNCHANGED <<strays, key, phase, batch, left, force>>
             /\ UNCHANGED <<life, tables, memory, herd>>
    <2>1. WorkOK'
      BY <1>2, <1>4, BoundsAssumption DEF TypeOK, WorkOK, Steps, Thread
    <2>2. UNCHANGED life /\ UNCHANGED tables /\ UNCHANGED memory /\ UNCHANGED herd
      BY <1>4
    <2> QED
      BY <1>1, <1>3, <1>4, <2>1, <2>2, Unmoved DEF TypeOK
  <1>5. CASE /\ UNCHANGED forum \/ (UNCHANGED strays /\ \E t \in Fresh : Makes(t))
             /\ Fatal("create")
    BY <1>1, <1>3, <1>5, FatalTyped DEF TypeOK, Ends
  <1>6. CASE /\ UNCHANGED forum \/ (UNCHANGED strays /\ \E t \in Fresh : Makes(t))
             /\ Fail \/ \E step \in {"rejected", "migrated"} : Goto(step, key)
             /\ UNCHANGED <<life, tables, memory, herd>>
    <2>1. UNCHANGED life /\ UNCHANGED tables /\ UNCHANGED memory /\ UNCHANGED herd
      BY <1>6
    <2>2. "rejected" \in Steps /\ "migrated" \in Steps
      BY DEF Steps
    <2>3. WorkOK'
      BY <1>1, <1>6, <2>2, FailTyped, GotoTyped
    <2> QED
      BY <1>1, <1>3, <1>6, <2>1, <2>3, Unmoved DEF TypeOK
  <1> QED
    BY <1>4, <1>5, <1>6 DEF Creating

LEMMA CreateRepeatedTyped == TypeOK /\ StepOK /\ CreateRepeated => TypeOK'
  <1> SUFFICES ASSUME TypeOK, StepOK, CreateRepeated PROVE TypeOK'
    OBVIOUS
  <1>1. PICK t \in Fresh : Makes(t) /\ strays' = strays \cup {t}
    BY DEF CreateRepeated
  <1>2. at \in StepsOnAgents /\ t \in Thread /\ strays' \subseteq Thread
    BY <1>1 DEF CreateRepeated, StepsOnAgents, Fresh, TypeOK, ForumTyped
  <1>3. ForumTyped'
    BY <1>1, <1>2, MakesTyped
  <1>4. /\ UNCHANGED life /\ UNCHANGED tables /\ UNCHANGED memory /\ UNCHANGED work
        /\ UNCHANGED herd /\ UNCHANGED env
    BY DEF CreateRepeated
  <1> QED
    BY <1>3, <1>4, Unmoved DEF TypeOK

LEMMA LinkedTyped ==
  ASSUME TypeOK, StepOK, at = "link"
  PROVE  Link(topics, Mine(key), made, now) \in Tables
  <1>1. Mine(key) \in Agent
    BY MineTyped DEF StepsOnAgents
  <1>2. made \in 0..MaxThread /\ made \in Nat /\ now \in Nat
    BY BoundsAssumption DEF TypeOK, WorkOK, EnvOK
  <1> DEFINE e == [thread |-> made, name |-> Mine(key).name, status |-> Mine(key).status,
                   closed |-> FALSE, muted |-> FALSE, cwd |-> Mine(key).cwd,
                   kind |-> Mine(key).kind, legacy |-> FALSE, at |-> now]
  <1>3. e \in {f \in Entry : f.thread \in 0..MaxThread}
    BY <1>1, <1>2 DEF Entry, Agent
  <1>4. Link(topics, Mine(key), made, now) = [topics EXCEPT ![Mine(key).key] = e]
    BY DEF Link
  <1> HIDE DEF e
  <1> QED
    BY <1>3, <1>4, EntryHere DEF Tables

LEMMA LinkTopicTyped == TypeOK /\ StepOK /\ LinkTopic => TypeOK'
  <1> SUFFICES ASSUME TypeOK, StepOK, LinkTopic PROVE TypeOK'
    OBVIOUS
  <1>1. ForumTyped' /\ EnvOK'
    BY Unmoved DEF LinkTopic
  <1>2. CASE SaveFails
    BY <1>1, <1>2, SaveFailsTyped DEF TypeOK
  <1>3. CASE /\ Saved(Link(topics, Mine(key), made, now), pending \ {key}) /\ Return
             /\ UNCHANGED <<life, memory, herd>>
    <2>1. Link(topics, Mine(key), made, now) \in Tables /\ pending \ {key} \in SUBSET Key
      BY EntryHere, LinkedTyped DEF LinkTopic
    <2>2. TablesOK' /\ WorkOK'
      BY <1>3, <2>1, SavedTyped, ReturnTyped
    <2>3. UNCHANGED life /\ UNCHANGED memory /\ UNCHANGED herd
      BY <1>3
    <2> QED
      BY <1>1, <2>2, <2>3, Unmoved DEF TypeOK
  <1> QED
    BY <1>2, <1>3 DEF LinkTopic

LEMMA ClearIntentTyped == TypeOK /\ StepOK /\ ClearIntent => TypeOK'
  <1> SUFFICES ASSUME TypeOK, StepOK, ClearIntent PROVE TypeOK'
    OBVIOUS
  <1>1. ForumTyped' /\ EnvOK'
    BY Unmoved DEF ClearIntent
  <1>2. topics \in Tables /\ pending \ {key} \in SUBSET Key
    BY EntryHere
  <1>3. CASE SaveFails \/ Down("forbidden", [topics |-> topics, pending |-> pending \ {key}])
    <2>1. [topics |-> topics, pending |-> pending \ {key}] \in Records /\ "forbidden" \in Ends
      BY <1>2 DEF Records, Ends
    <2> QED
      BY <1>1, <1>3, <2>1, SaveFailsTyped, DownTyped DEF TypeOK
  <1>4. CASE Saved(topics, pending \ {key}) /\ Fail /\ UNCHANGED <<life, memory, herd>>
    <2>1. TablesOK' /\ WorkOK'
      BY <1>2, <1>4, SavedTyped, FailTyped
    <2>2. UNCHANGED life /\ UNCHANGED memory /\ UNCHANGED herd
      BY <1>4
    <2> QED
      BY <1>1, <2>1, <2>2, Unmoved DEF TypeOK
  <1> QED
    BY <1>3, <1>4 DEF ClearIntent

LEMMA ReviveTyped == TypeOK /\ StepOK /\ Revive => TypeOK'
  <1>1. {"reopening", "reopened"} \subseteq Steps
    BY DEF Steps
  <1> QED
    BY <1>1, ProceedTyped, QuitTyped DEF Revive

(* The ways a revival goes on that are not those of an ordinary call.      *)
LEMMA StepTyped ==
  ASSUME TypeOK, NEW step \in Steps, Goto(step, key), TablesOK', ForumTyped',
         UNCHANGED <<life, memory, herd>>, UNCHANGED env
  PROVE  TypeOK'
  <1>1. UNCHANGED life /\ UNCHANGED memory /\ UNCHANGED herd
    OBVIOUS
  <1>2. WorkOK'
    BY EntryHere, GotoTyped
  <1> QED
    BY <1>1, <1>2, Unmoved DEF TypeOK

LEMMA ReopeningTyped == TypeOK /\ StepOK /\ Reopening => TypeOK'
  <1> SUFFICES ASSUME TypeOK, StepOK, Reopening PROVE TypeOK'
    OBVIOUS
  <1> DEFINE t == topics[key].thread
             v == [tg[t] EXCEPT !.state = "open"]
  <1>1. t \in Thread => v \in TopicState
    BY CallsTyped
  <1> HIDE DEF v
  <1>2. {"reopened", "intent"} \subseteq Steps /\ UNCHANGED env
    BY DEF Steps, Reopening
  <1>3. CASE Succeeds(t, v) /\ Goto("reopened", key) /\ UNCHANGED <<life, tables, memory, herd>>
    <2>1. TablesOK' /\ ForumTyped'
      BY <1>1, <1>3, EffectTyped, Unmoved DEF Succeeds
    <2> QED
      BY <1>2, <1>3, <2>1, StepTyped
  <1>4. CASE /\ UNCHANGED forum
             /\ topics' = Forget(topics, key) /\ UNCHANGED <<pending, dirty, disk>>
             /\ Goto("intent", key) /\ UNCHANGED <<life, memory, herd>>
    <2>1. TablesOK' /\ ForumTyped'
      BY <1>4, ForgetInTables, EntryHere, Unmoved DEF TypeOK, TablesOK
    <2> QED
      BY <1>2, <1>4, <2>1, StepTyped
  <1>5. CASE FailPolicy(t, v)
    BY <1>1, <1>2, <1>5, FailPolicyTyped, Unmoved DEF TypeOK
  <1> QED
    BY <1>3, <1>4, <1>5 DEF Reopening, v

LEMMA ReopenedTyped == TypeOK /\ StepOK /\ Reopened => TypeOK'
  <1>1. "refreshing" \in Steps
    BY DEF Steps
  <1>2. \A e \in Entry : [e EXCEPT !.closed = FALSE] \in Entry /\ [e EXCEPT !.closed = FALSE].thread = e.thread
    BY DEF Entry
  <1> QED
    BY <1>1, <1>2, EntryHere, RecordedTyped DEF Reopened

LEMMA RefreshingTyped == TypeOK /\ StepOK /\ Refreshing => TypeOK'
  <1> SUFFICES ASSUME TypeOK, StepOK, Refreshing PROVE TypeOK'
    OBVIOUS
  <1> DEFINE t == topics[key].thread
             v == Shown(t, Mine(key), {"status"} \cup Moved(topics[key], Mine(key)))
  <1>1. t \in Thread => v \in TopicState
    BY CallsTyped, MineTyped DEF Refreshing, StepsOnAgents
  <1> HIDE DEF v
  <1>2. {"refreshed", "intent"} \subseteq Steps /\ UNCHANGED env
    BY DEF Steps, Refreshing
  <1>3. CASE Succeeds(t, v) /\ Goto("refreshed", key) /\ UNCHANGED <<life, tables, memory, herd>>
    <2>1. TablesOK' /\ ForumTyped'
      BY <1>1, <1>3, EffectTyped, Unmoved DEF Succeeds
    <2> QED
      BY <1>2, <1>3, <2>1, StepTyped
  <1>4. CASE /\ UNCHANGED forum
             /\ Saved(Forget(topics, key), pending) /\ Goto("intent", key)
             /\ UNCHANGED <<life, memory, herd>>
    <2>1. TablesOK' /\ ForumTyped'
      BY <1>4, ForgetInTables, EntryHere, SavedTyped, Unmoved
    <2> QED
      BY <1>2, <1>4, <2>1, StepTyped
  <1>5. CASE UNCHANGED forum /\ SaveFails
    BY <1>2, <1>5, SaveFailsTyped, Unmoved DEF TypeOK
  <1>6. CASE FailPolicy(t, v)
    BY <1>1, <1>2, <1>6, FailPolicyTyped, Unmoved DEF TypeOK
  <1> QED
    BY <1>3, <1>4, <1>5, <1>6 DEF Refreshing, v

(* The records a successful call leaves.                                   *)
LEMMA RecordsTyped ==
  ASSUME TypeOK
  PROVE  /\ \A a \in Agent : \A e \in {[topics[key] EXCEPT !.name = a.name, !.status = a.status]} :
              e \in Entry /\ e.thread \in 0..MaxThread
         /\ \A b \in BOOLEAN : \A e \in {[topics[key] EXCEPT !.closed = b],
                                        [topics[key] EXCEPT !.status = Exited],
                                        [topics[key] EXCEPT !.status = Exited, !.closed = b]} :
              e \in Entry /\ e.thread \in 0..MaxThread
  <1>1. topics[key] \in Entry /\ topics[key].thread \in 0..MaxThread
    BY EntryHere
  <1> QED
    BY <1>1, ZenonT(60) DEF Entry, Agent

LEMMA RefreshedTyped == TypeOK /\ StepOK /\ Refreshed => TypeOK'
  <1>1. "none" \in Steps
    BY DEF Steps
  <1>2. at = "refreshed" => at \in StepsOnAgents
    BY DEF StepsOnAgents
  <1> QED
    BY <1>1, <1>2, MineTyped, RecordsTyped, RecordedTyped DEF Refreshed

LEMMA EditedTyped == TypeOK /\ StepOK /\ Edited => TypeOK'
  <1>1. "none" \in Steps
    BY DEF Steps
  <1>2. at = "edited" => at \in StepsOnAgents
    BY DEF StepsOnAgents
  <1> QED
    BY <1>1, <1>2, MineTyped, RecordsTyped, RecordedTyped DEF Edited

LEMMA EditTyped == TypeOK /\ StepOK /\ Edit => TypeOK'
  <1>1. {"create", "editing"} \subseteq Steps
    BY DEF Steps
  <1> QED
    BY <1>1, ProceedTyped, QuitTyped DEF Edit

LEMMA EditingTyped == TypeOK /\ StepOK /\ Editing => TypeOK'
  <1> SUFFICES ASSUME TypeOK, StepOK, Editing PROVE TypeOK'
    OBVIOUS
  <1>1. "edited" \in Steps /\ at \in StepsOnAgents
    BY DEF Steps, Editing, StepsOnAgents
  <1> DEFINE t == topics[key].thread
             v == Shown(t, Mine(key), IF Forced THEN {"name", "status"}
                                      ELSE Moved(topics[key], Mine(key)))
  <1>2. t \in Thread => v \in TopicState
    BY <1>1, CallsTyped, MineTyped
  <1>3. Answered(t, v, "edited")
    BY DEF Editing
  <1> HIDE DEF t, v
  <1> QED
    BY <1>1, <1>2, <1>3, AnsweredTyped

LEMMA ExitTyped == TypeOK /\ StepOK /\ Exit => TypeOK'
  <1>1. {"exiting", "close", "none"} \subseteq Steps
    BY DEF Steps
  <1>2. TypeOK /\ Recorded([topics[key] EXCEPT !.status = Exited, !.closed = TRUE], "none") => TypeOK'
    BY <1>1, RecordsTyped, RecordedTyped
  <1> QED
    BY <1>1, <1>2, ProceedTyped, QuitTyped DEF Exit

LEMMA FinishTyped == TypeOK /\ StepOK /\ Finish => TypeOK'
  <1>1. "exiting" \in Steps
    BY DEF Steps
  <1> QED
    BY <1>1, ProceedTyped, QuitTyped DEF Finish

LEMMA ExitingTyped == TypeOK /\ StepOK /\ Exiting => TypeOK'
  <1>1. "exited" \in Steps
    BY DEF Steps
  <1> QED
    BY <1>1, CallsTyped, AnsweredTyped DEF Exiting

LEMMA ExitRecordedTyped == TypeOK /\ StepOK /\ ExitRecorded => TypeOK'
  <1>1. "close" \in Steps
    BY DEF Steps
  <1> QED
    BY <1>1, RecordsTyped, RecordedTyped DEF ExitRecorded

LEMMA CloseTyped == TypeOK /\ StepOK /\ Close => TypeOK'
  <1>1. "closing" \in Steps
    BY DEF Steps
  <1> QED
    BY <1>1, ProceedTyped, QuitTyped DEF Close

LEMMA ClosingTyped == TypeOK /\ StepOK /\ Closing => TypeOK'
  <1>1. "closed" \in Steps
    BY DEF Steps
  <1> QED
    BY <1>1, CallsTyped, AnsweredTyped DEF Closing

LEMMA ClosedTyped == TypeOK /\ StepOK /\ Closed => TypeOK'
  <1>1. "none" \in Steps
    BY DEF Steps
  <1> QED
    BY <1>1, RecordsTyped, RecordedTyped DEF Closed

LEMMA DeletingTyped == TypeOK /\ StepOK /\ Deleting => TypeOK'
  <1> SUFFICES ASSUME TypeOK, StepOK, Deleting PROVE TypeOK'
    OBVIOUS
  <1> DEFINE t == topics[key].thread
             v == [tg[t] EXCEPT !.state = "deleted"]
  <1>1. t \in Thread => v \in TopicState
    BY CallsTyped
  <1> HIDE DEF v
  <1>2. UNCHANGED forum \/ Effect(t, v)
    BY DEF Deleting, Succeeds, Skipped, MaybeEffect, Forbidden, v
  <1>3. ForumTyped'
    BY <1>1, <1>2, EffectTyped
  <1>4. "deleted" \in Steps /\ "idle" \in Phases /\ {} \in SUBSET Key /\ key \in Key
    BY EntryHere DEF Steps, Phases
  <1>5. Goto("deleted", key) \/ Return \/ Over("idle", {})
    BY DEF Deleting
  <1>6. WorkOK'
    BY <1>4, <1>5, GotoTyped, ReturnTyped, OverTyped
  <1>7. /\ UNCHANGED life /\ UNCHANGED tables /\ UNCHANGED memory
        /\ UNCHANGED herd /\ UNCHANGED env
    BY DEF Deleting
  <1> QED
    BY <1>3, <1>6, <1>7, Unmoved DEF TypeOK

LEMMA DeletedTyped == TypeOK /\ StepOK /\ Deleted => TypeOK'
  <1> SUFFICES ASSUME TypeOK, StepOK, Deleted PROVE TypeOK'
    OBVIOUS
  <1>1. ForumTyped' /\ EnvOK'
    BY Unmoved DEF Deleted
  <1>2. CASE SaveFails
    BY <1>1, <1>2, SaveFailsTyped DEF TypeOK
  <1>3. CASE Saved(Forget(topics, key), pending) /\ Return /\ UNCHANGED <<life, memory, herd>>
    <2>1. TablesOK' /\ WorkOK'
      BY <1>3, EntryHere, ForgetInTables, SavedTyped, ReturnTyped
    <2>2. UNCHANGED life /\ UNCHANGED memory /\ UNCHANGED herd
      BY <1>3
    <2> QED
      BY <1>1, <2>1, <2>2, Unmoved DEF TypeOK
  <1> QED
    BY <1>2, <1>3 DEF Deleted

THEOREM OperationTyped == TypeOK /\ StepOK /\ Operation => TypeOK'
  BY CreateTyped, IntentTyped, CreatingTyped, CreateRepeatedTyped, LinkTopicTyped, ClearIntentTyped,
     ReviveTyped, ReopeningTyped, ReopenedTyped, RefreshingTyped, RefreshedTyped, EditTyped,
     EditingTyped, EditedTyped, ExitTyped, FinishTyped, ExitingTyped, ExitRecordedTyped, CloseTyped,
     ClosingTyped, ClosedTyped, DeletingTyped, DeletedTyped DEF Operation

---------------------------------------------------------------------------
(* The loops.                                                              *)

LEMMA EnterTyped ==
  ASSUME TypeOK, NEW p \in Phases, NEW keys \in SUBSET Key, Enter(p, keys)
  PROVE  WorkOK'
  BY DEF TypeOK, WorkOK, Enter

LEMMA HandleEventTyped == TypeOK /\ HandleEvent => TypeOK'
  <1> SUFFICES ASSUME TypeOK, HandleEvent PROVE TypeOK'
    OBVIOUS
  <1> DEFINE ev == Head(batch)
             k == ev.agent.key
             new == IF ev.kind = "gone" THEN topics ELSE Continued(topics, {ev.agent})
             away == IF ev.kind = "gone" THEN {k} ELSE Left({ev.agent})
             quiet == ev.kind = "changed" /\ k \in Mapped(new) /\ Live(new[k])
             stay == {a \in agents : a.key \notin away}
  <1>1. ForumTyped' /\ EnvOK'
    BY Unmoved DEF HandleEvent
  <1>2. batch \in Seq(Event) /\ batch # <<>>
    BY DEF TypeOK, WorkOK, HandleEvent
  <1>3. ev \in Event /\ Tail(batch) \in Seq(Event)
    BY <1>2, HeadTailProperties
  <1> HIDE DEF ev
  <1>4. ev.agent \in Agent /\ k \in Key
    BY <1>3, OneAgentTyped DEF Event
  <1>5. new \in Tables /\ pending \in SUBSET Key
    BY <1>4, EntryHere, OneAgentTyped, ContinuedInTables
  <1>6. CASE SaveFails
    BY <1>1, <1>6, SaveFailsTyped DEF TypeOK
  <1>7. CASE /\ IF dirty \/ new # topics THEN Saved(new, pending) ELSE UNCHANGED tables
             /\ batch' = Tail(batch)
             /\ agents' = IF ev.kind = "gone" THEN stay ELSE Put(stay, ev.agent)
             /\ deb' = (deb \ away) \cup (IF quiet THEN {k} ELSE {})
             /\ at' = IF quiet THEN "none"
                      ELSE IF ev.kind = "gone" THEN "exit"
                      ELSE IF k \in Mapped(new) /\ Live(new[k]) THEN "edit" ELSE "create"
             /\ key' = IF quiet THEN AnyKey ELSE k
             /\ phase' = IF quiet /\ phase = "one" THEN "idle" ELSE phase
             /\ UNCHANGED <<made, left, force, due, rightsLost, life, herd>>
    <2>1. TablesOK'
      BY <1>5, <1>7, SavedTyped, Unmoved
    <2>2. MemoryOK'
      <3>1. agents' \subseteq Agent
        BY <1>4, <1>7 DEF TypeOK, MemoryOK, Put
      <3>2. deb' \subseteq Key
        BY <1>4, <1>7 DEF TypeOK, MemoryOK
      <3> QED
        BY <1>7, <3>1, <3>2 DEF TypeOK, MemoryOK
    <2>3. WorkOK'
      <3>1. at' \in Steps /\ phase' \in Phases
        BY <1>7 DEF TypeOK, WorkOK, Steps, Phases
      <3>2. key' \in Key
        BY <1>4, <1>7, AnyKeyIsKey
      <3> QED
        BY <1>3, <1>7, <3>1, <3>2 DEF TypeOK, WorkOK
    <2>4. UNCHANGED life /\ UNCHANGED herd
      BY <1>7
    <2> QED
      BY <1>1, <2>1, <2>2, <2>3, <2>4, Unmoved DEF TypeOK
  <1> QED
    BY <1>6, <1>7 DEF HandleEvent, ev

LEMMA FlushStartsTyped == TypeOK /\ FlushStarts => TypeOK'
  <1> SUFFICES ASSUME TypeOK, FlushStarts PROVE TypeOK'
    OBVIOUS
  <1>1. deb \in SUBSET Key /\ "flush" \in Phases
    BY DEF TypeOK, MemoryOK, Phases
  <1>2. WorkOK'
    BY <1>1, EnterTyped DEF FlushStarts
  <1>3. MemoryOK'
    BY DEF FlushStarts, TypeOK, MemoryOK
  <1>4. /\ UNCHANGED life /\ UNCHANGED tables /\ UNCHANGED herd
        /\ UNCHANGED forum /\ UNCHANGED env
    BY DEF FlushStarts
  <1> QED
    BY <1>2, <1>3, <1>4, Unmoved DEF TypeOK

LEMMA OnlyEnters ==
  ASSUME TypeOK, NEW p \in Phases, NEW keys \in SUBSET Key, Enter(p, keys),
         UNCHANGED <<life, tables, memory, herd, forum, env>>
  PROVE  TypeOK'
  <1>1. /\ UNCHANGED life /\ UNCHANGED tables /\ UNCHANGED memory /\ UNCHANGED herd
        /\ UNCHANGED forum /\ UNCHANGED env
    OBVIOUS
  <1> QED
    BY <1>1, EnterTyped, Unmoved DEF TypeOK

LEMMA FlushEndsTyped == TypeOK /\ FlushEnds => TypeOK'
  <1>1. "reconcile" \in Phases /\ {} \in SUBSET Key
    BY DEF Phases
  <1> QED
    BY <1>1, OnlyEnters DEF FlushEnds

LEMMA LoopEndsTyped == TypeOK /\ LoopEnds => TypeOK'
  <1>1. {"unclosed", "live", "idle"} \subseteq Phases /\ {} \in SUBSET Key
    BY DEF Phases
  <1>2. TypeOK => Unclosed(topics) \in SUBSET Key /\ KeysOf(agents) \in SUBSET Key
    BY DEF Unclosed, Mapped, KeysOf, TypeOK, MemoryOK, Agent
  <1> QED
    BY <1>1, <1>2, OnlyEnters DEF LoopEnds

LEMMA PassStartsTyped == TypeOK /\ PassStarts => TypeOK'
  <1> SUFFICES ASSUME TypeOK, PassStarts PROVE TypeOK'
    OBVIOUS
  <1> DEFINE once == DedupeThreads(topics)
             plan == PlanReassociation(once, registry)
             new == Continued(once, registry)
  <1>1. ForumTyped' /\ EnvOK'
    BY Unmoved DEF PassStarts
  <1>2. registry \in SUBSET Agent /\ Distinct(registry)
    BY WorldTyped DEF TypeOK, HerdOK
  <1>3. new \in Tables /\ topics \in Tables /\ pending \in SUBSET Key
    BY <1>2, EntryHere, DedupedInTables, ContinuedInTables
  <1> HIDE DEF once, new
  <1>4. CASE SaveFails
    BY <1>1, <1>4, SaveFailsTyped DEF TypeOK
  <1>5. CASE /\ IF dirty THEN Saved(topics, pending) ELSE UNCHANGED tables
             /\ Enter("idle", {}) /\ UNCHANGED <<life, memory, herd>>
    <2>1. TablesOK'
      BY <1>3, <1>5, SavedTyped, Unmoved
    <2>2. WorkOK'
      BY <1>5, EnterTyped DEF Phases
    <2>3. UNCHANGED life /\ UNCHANGED memory /\ UNCHANGED herd
      BY <1>5
    <2> QED
      BY <1>1, <2>1, <2>2, <2>3, Unmoved DEF TypeOK
  <1>6. CASE /\ IF dirty \/ new # topics THEN Saved(new, pending) ELSE UNCHANGED tables
             /\ agents' = registry
             /\ deb' = deb \ MoveSources(plan)
             /\ Enter("orphans", Orphans(new, KeysOf(registry)))
             /\ UNCHANGED <<due, rightsLost, life, herd>>
    <2>1. TablesOK'
      BY <1>3, <1>6, SavedTyped, Unmoved
    <2>2. Orphans(new, KeysOf(registry)) \in SUBSET Key /\ "orphans" \in Phases
      BY DEF Orphans, Mapped, Phases
    <2>3. WorkOK'
      BY <1>6, <2>2, EnterTyped
    <2>4. MemoryOK'
      BY <1>2, <1>6 DEF TypeOK, MemoryOK
    <2>5. UNCHANGED life /\ UNCHANGED herd
      BY <1>6
    <2> QED
      BY <1>1, <2>1, <2>3, <2>4, <2>5, Unmoved DEF TypeOK
  <1> QED
    BY <1>4, <1>5, <1>6 DEF PassStarts, once, new

LEMMA NextInLoopTyped == TypeOK /\ NextInLoop => TypeOK'
  <1> SUFFICES ASSUME TypeOK, NextInLoop PROVE TypeOK'
    OBVIOUS
  <1>1. PICK k \in left :
          /\ left' = left \ {k} /\ key' = k
          /\ at' \in {"exit", "close", "deleting", "none", "edit", "create"}
          /\ deb' \in {deb, deb \ {k}}
    BY DEF NextInLoop
  <1>2. WorkOK'
    <2>1. at' \in Steps
      BY <1>1 DEF Steps
    <2> QED
      BY <1>1, <2>1 DEF NextInLoop, TypeOK, WorkOK
  <1>3. MemoryOK'
    BY <1>1 DEF NextInLoop, TypeOK, MemoryOK
  <1>4. /\ UNCHANGED life /\ UNCHANGED tables /\ UNCHANGED herd
        /\ UNCHANGED forum /\ UNCHANGED env
    BY DEF NextInLoop
  <1> QED
    BY <1>2, <1>3, <1>4, Unmoved DEF TypeOK

LEMMA StopEndsTyped == TypeOK /\ StopEnds => TypeOK'
  BY FatalTyped, Unmoved DEF StopEnds, TypeOK, Ends

THEOREM LoopTyped == TypeOK /\ Loop => TypeOK'
  BY HandleEventTyped, FlushStartsTyped, FlushEndsTyped, PassStartsTyped, NextInLoopTyped,
     LoopEndsTyped, StopEndsTyped DEF Loop

---------------------------------------------------------------------------
(* What the loop takes, and what the world does.                           *)

LEMMA TakeEventTyped == TypeOK /\ TakeEvent => TypeOK'
  <1> SUFFICES ASSUME TypeOK, TakeEvent PROVE TypeOK'
    OBVIOUS
  <1>1. events \in Seq(Event) /\ events # <<>>
    BY DEF TypeOK, HerdOK, TakeEvent
  <1>2. Head(events) \in Event /\ Tail(events) \in Seq(Event)
    BY <1>1, HeadTailProperties
  <1>3. <<Head(events)>> \in Seq(Event)
    BY <1>2
  <1>4. WorkOK'
    BY <1>3 DEF TypeOK, WorkOK, TakeEvent, Phases
  <1>5. HerdOK'
    BY <1>2 DEF TypeOK, HerdOK, TakeEvent
  <1>6. /\ UNCHANGED life /\ UNCHANGED tables /\ UNCHANGED memory
        /\ UNCHANGED forum /\ UNCHANGED env
    BY DEF TakeEvent
  <1> QED
    BY <1>4, <1>5, <1>6, Unmoved DEF TypeOK

LEMMA TakeDueTyped == TypeOK /\ TakeDue => TypeOK'
  <1> SUFFICES ASSUME TypeOK, TakeDue PROVE TypeOK'
    OBVIOUS
  <1>1. PICK k \in due : due' = due \ {k} /\ at' = "edit" /\ key' = k
    BY DEF TakeDue
  <1>2. WorkOK'
    BY <1>1 DEF TypeOK, MemoryOK, WorkOK, TakeDue, Phases, Steps
  <1>3. MemoryOK'
    BY <1>1 DEF TypeOK, MemoryOK, TakeDue
  <1>4. /\ UNCHANGED life /\ UNCHANGED tables /\ UNCHANGED herd
        /\ UNCHANGED forum /\ UNCHANGED env
    BY DEF TakeDue
  <1> QED
    BY <1>2, <1>3, <1>4, Unmoved DEF TypeOK

LEMMA TimerFiresTyped == TypeOK /\ TimerFires => TypeOK'
  <1> SUFFICES ASSUME TypeOK, TimerFires PROVE TypeOK'
    OBVIOUS
  <1>1. MemoryOK'
    BY DEF TypeOK, MemoryOK, TimerFires
  <1>2. /\ UNCHANGED life /\ UNCHANGED tables /\ UNCHANGED work /\ UNCHANGED herd
        /\ UNCHANGED forum /\ UNCHANGED env
    BY DEF TimerFires
  <1> QED
    BY <1>1, <1>2, Unmoved DEF TypeOK

LEMMA ReplayTyped ==
  ASSUME TypeOK, NEW forced \in BOOLEAN, ReplayStarts(forced)
  PROVE  WorkOK' /\ HerdOK' /\ steps' \in Nat
  <1>1. CASE UNCHANGED <<work, herd, steps>>
    <2>1. UNCHANGED work /\ UNCHANGED herd /\ UNCHANGED steps
      BY <1>1
    <2> QED
      BY <2>1, Unmoved DEF TypeOK, EnvOK
  <1>2. CASE \E W \in Worlds :
               /\ registry' = W /\ batch' = SnapshotEvents(registry, W)
               /\ steps' = IF W = registry THEN steps ELSE steps + 1
               /\ phase' = "events" /\ force' = forced
               /\ UNCHANGED <<at, key, made, left, events>>
    <2>1. PICK W \in Worlds :
               /\ registry' = W /\ batch' = SnapshotEvents(registry, W)
               /\ steps' = IF W = registry THEN steps ELSE steps + 1
               /\ phase' = "events" /\ force' = forced
               /\ UNCHANGED <<at, key, made, left, events>>
      BY <1>2
    <2>2. SnapshotEvents(registry, W) \in Seq(Event)
      BY SnapshotTyped DEF TypeOK, HerdOK
    <2>3. WorkOK'
      BY <2>1, <2>2 DEF TypeOK, WorkOK, Phases
    <2>4. HerdOK' /\ steps' \in Nat
      BY <2>1 DEF TypeOK, HerdOK, EnvOK
    <2> QED
      BY <2>3, <2>4
  <1> QED
    BY <1>1, <1>2 DEF ReplayStarts

LEMMA CatchUpTyped == TypeOK /\ CatchUp => TypeOK'
  <1> SUFFICES ASSUME TypeOK, CatchUp PROVE TypeOK'
    OBVIOUS
  <1>1. WorkOK' /\ HerdOK' /\ steps' \in Nat
    BY ReplayTyped DEF CatchUp
  <1>2. EnvOK'
    BY <1>1 DEF CatchUp, TypeOK, EnvOK
  <1>3. UNCHANGED life /\ UNCHANGED tables /\ UNCHANGED memory /\ UNCHANGED forum
    BY DEF CatchUp
  <1> QED
    BY <1>1, <1>2, <1>3, Unmoved DEF TypeOK

LEMMA SweepStartsTyped == TypeOK /\ SweepStarts => TypeOK'
  <1> SUFFICES ASSUME TypeOK, SweepStarts PROVE TypeOK'
    OBVIOUS
  <1>1. Stale(topics, now, MaxAge) \subseteq Key
    BY DEF Stale, Mapped
  <1>2. WorkOK'
    BY <1>1 DEF SweepStarts, TypeOK, WorkOK, Phases
  <1>3. /\ UNCHANGED life /\ UNCHANGED tables /\ UNCHANGED memory /\ UNCHANGED herd
        /\ UNCHANGED forum /\ UNCHANGED env
    BY DEF SweepStarts
  <1> QED
    BY <1>2, <1>3, Unmoved DEF TypeOK

LEMMA TookTyped ==
  ASSUME TypeOK, Took
  PROVE  ForumTyped' /\ Head(inbox) \in Update
  <1>1. inbox \in Seq(Update) /\ inbox # <<>>
    BY DEF TypeOK, ForumTyped, Took
  <1>2. Head(inbox) \in Update /\ Tail(inbox) \in Seq(Update)
    BY <1>1, HeadTailProperties
  <1> QED
    BY <1>2 DEF TypeOK, ForumTyped, Took

(* An update that has a holder has an owner among them, whatever its tie.  *)
LEMMA OwnerTyped ==
  ASSUME TypeOK, NEW k, k \in Key
  PROVE  /\ topics[k] \in Entry /\ topics[k].thread \in 0..MaxThread
         /\ \A b, c \in BOOLEAN :
              \A e \in {[topics[k] EXCEPT !.muted = b], [topics[k] EXCEPT !.closed = b],
                        [topics[k] EXCEPT !.muted = b, !.closed = c]} : Touch(k, e) \in Tables
         /\ \A n \in Name : Touch(k, [topics[k] EXCEPT !.name = n]) \in Tables
  <1>1. topics[k] \in Entry /\ topics[k].thread \in 0..MaxThread
    BY DEF TypeOK, TablesOK, Tables
  <1>2. ASSUME NEW b \in BOOLEAN, NEW c \in BOOLEAN,
               NEW e \in {[topics[k] EXCEPT !.muted = b], [topics[k] EXCEPT !.closed = b],
                          [topics[k] EXCEPT !.muted = b, !.closed = c]}
        PROVE  Touch(k, e) \in Tables
    <2>1. e \in Entry /\ e.thread \in 0..MaxThread
      BY <1>1 DEF Entry
    <2> QED
      BY <2>1, TouchTyped
  <1>3. ASSUME NEW n \in Name PROVE Touch(k, [topics[k] EXCEPT !.name = n]) \in Tables
    <2> DEFINE e == [topics[k] EXCEPT !.name = n]
    <2>1. e \in Entry /\ e.thread \in 0..MaxThread
      BY <1>1 DEF Entry
    <2> HIDE DEF e
    <2>2. Touch(k, e) \in Tables
      BY <2>1, TouchTyped
    <2> QED
      BY <2>2 DEF e
  <1> QED
    BY <1>1, <1>2, <1>3

LEMMA OwnerHolds ==
  ASSUME TypeOK, OneEntryPerTopic, NEW t, Holders(topics, t) # {}
  PROVE  Owner(t) \in Mapped(topics) /\ Owner(t) \in Key /\ topics[Owner(t)].thread = t
  <1>1. PICK k \in Holders(topics, t) : TRUE
    OBVIOUS
  <1>2. Holders(topics, t) = {k}
    BY <1>1 DEF Holders, OneEntryPerTopic, Single
  <1>3. topics[k] \in Entry /\ k \in Mapped(topics) /\ topics[k].thread = t
    BY <1>1 DEF Holders, TypeOK, TablesOK, Tables, Mapped
  <1>4. ~Newer(topics[k], topics[k])
    BY <1>3 DEF Newer, Entry
  <1>5. Owner(t) = k
    BY <1>2, <1>4 DEF Owner, KeyForThread
  <1> QED
    BY <1>3, <1>5 DEF Mapped

LEMMA SavedOnlyTyped ==
  ASSUME TypeOK, NEW new \in Tables, SavedOnly(new)
  PROVE  LifeOK' /\ TablesOK' /\ MemoryOK' /\ WorkOK' /\ HerdOK'
  <1>1. CASE SaveFails
    BY <1>1, SaveFailsTyped
  <1>2. CASE Saved(new, pending) /\ UNCHANGED <<life, work, memory, herd>>
    <2>1. TablesOK'
      BY <1>2, EntryHere, SavedTyped
    <2>2. UNCHANGED life /\ UNCHANGED work /\ UNCHANGED memory /\ UNCHANGED herd
      BY <1>2
    <2> QED
      BY <2>1, <2>2, Unmoved
  <1> QED
    BY <1>1, <1>2 DEF SavedOnly

LEMMA IgnoredTyped ==
  ASSUME TypeOK, UNCHANGED <<life, tables, memory, work, herd>>
  PROVE  LifeOK' /\ TablesOK' /\ MemoryOK' /\ WorkOK' /\ HerdOK'
  <1>1. /\ UNCHANGED life /\ UNCHANGED tables /\ UNCHANGED memory /\ UNCHANGED work
        /\ UNCHANGED herd
    OBVIOUS
  <1> QED
    BY <1>1, Unmoved

LEMMA OnTopicClosedTyped == TypeOK /\ OneEntryPerTopic /\ OnTopicClosed => TypeOK'
  <1> SUFFICES ASSUME TypeOK, OneEntryPerTopic, OnTopicClosed PROVE TypeOK'
    OBVIOUS
  <1> DEFINE t == Head(inbox).thread
             k == Owner(t)
  <1>1. ForumTyped' /\ EnvOK'
    BY TookTyped, Unmoved DEF OnTopicClosed
  <1>2. CASE UNCHANGED <<life, tables, memory, work, herd>>
    BY <1>1, <1>2, IgnoredTyped DEF TypeOK
  <1>3. CASE /\ Holders(topics, t) # {}
             /\ \/ SavedOnly(Touch(k, [topics[k] EXCEPT !.muted = TRUE]))
                \/ SavedOnly(Touch(k, [topics[k] EXCEPT !.closed = TRUE]))
    <2>1. k \in Key
      BY <1>3, OwnerHolds
    <2>2. /\ Touch(k, [topics[k] EXCEPT !.muted = TRUE]) \in Tables
          /\ Touch(k, [topics[k] EXCEPT !.closed = TRUE]) \in Tables
      BY <2>1, OwnerTyped
    <2> QED
      BY <1>1, <1>3, <2>2, SavedOnlyTyped DEF TypeOK
  <1> QED
    BY <1>2, <1>3 DEF OnTopicClosed

LEMMA OnTopicReopenedTyped == TypeOK /\ OneEntryPerTopic /\ OnTopicReopened => TypeOK'
  <1> SUFFICES ASSUME TypeOK, OneEntryPerTopic, OnTopicReopened PROVE TypeOK'
    OBVIOUS
  <1> DEFINE t == Head(inbox).thread
             k == Owner(t)
             e == [topics[k] EXCEPT !.muted = FALSE, !.closed = FALSE]
  <1>1. ForumTyped' /\ EnvOK'
    BY TookTyped, Unmoved DEF OnTopicReopened
  <1>2. CASE UNCHANGED <<life, tables, memory, work, herd>>
    BY <1>1, <1>2, IgnoredTyped DEF TypeOK
  <1>3. CASE SaveFails
    BY <1>1, <1>3, SaveFailsTyped DEF TypeOK
  <1>4. CASE /\ Holders(topics, t) # {}
             /\ Saved(Touch(k, e), pending)
             /\ phase' = "one" /\ key' = k
             /\ IF k \in KeysOf(agents)
                  THEN /\ deb' = deb \ {k}
                       /\ at' = IF Live(topics[k]) THEN "edit" ELSE "revive"
                       /\ force' = Live(topics[k])
                  ELSE at' = "finish" /\ UNCHANGED <<deb, force>>
             /\ UNCHANGED <<made, batch, left, agents, due, rightsLost, life, herd>>
    <2>1. k \in Key
      BY <1>4, OwnerHolds
    <2>2. Touch(k, e) \in Tables
      BY <2>1, OwnerTyped
    <2>3. TablesOK'
      BY <1>4, <2>2, EntryHere, SavedTyped
    <2>4. MemoryOK'
      BY <1>4 DEF TypeOK, MemoryOK
    <2>5. WorkOK'
      <3>1. at' \in Steps /\ phase' \in Phases
        BY <1>4 DEF Steps, Phases
      <3>2. force' \in BOOLEAN
        BY <1>4 DEF Live, TypeOK, WorkOK
      <3> QED
        BY <1>4, <2>1, <3>1, <3>2 DEF TypeOK, WorkOK
    <2>6. UNCHANGED life /\ UNCHANGED herd
      BY <1>4
    <2> QED
      BY <1>1, <2>3, <2>4, <2>5, <2>6, Unmoved DEF TypeOK
  <1> QED
    BY <1>2, <1>3, <1>4 DEF OnTopicReopened

LEMMA RenamesTyped ==
  ASSUME TypeOK, NEW k \in KeysOf(agents), Renames(k), UNCHANGED <<due, rightsLost>>
  PROVE  MemoryOK' /\ HerdOK'
  <1>1. PICK n \in Name : agents' = Put(agents, [Mine(k) EXCEPT !.name = n])
    BY DEF Renames
  <1>2. Mine(k) \in Agent /\ k \in Key
    BY MineIsAgent DEF TypeOK, MemoryOK, KeysOf, Agent
  <1>3. [Mine(k) EXCEPT !.name = n] \in Agent
    BY <1>2 DEF Agent
  <1>4. MemoryOK'
    BY <1>1, <1>2, <1>3 DEF Renames, Put, TypeOK, MemoryOK
  <1>5. registry' \in Worlds /\ registry \in Worlds \cup {{}} /\ events \in Seq(Event)
    BY DEF Renames, TypeOK, HerdOK
  <1>6. SnapshotEvents(registry, registry') \in Seq(Event)
    BY <1>5, SnapshotTyped
  <1>7. events' \in Seq(Event)
    BY <1>5, <1>6, ConcatProperties DEF Renames
  <1> QED
    BY <1>4, <1>5, <1>7 DEF HerdOK

LEMMA OnTopicRenamedTyped == TypeOK /\ OneEntryPerTopic /\ OnTopicRenamed => TypeOK'
  <1> SUFFICES ASSUME TypeOK, OneEntryPerTopic, OnTopicRenamed PROVE TypeOK'
    OBVIOUS
  <1> DEFINE t == Head(inbox).thread
             n == Head(inbox).name
             k == Owner(t)
  <1>1. ForumTyped' /\ EnvOK' /\ n \in Name
    <2>1. Head(inbox) \in Update /\ Head(inbox).kind = "renamed" /\ ForumTyped'
      BY TookTyped DEF OnTopicRenamed
    <2>2. Head(inbox) \in [kind : {"renamed"}, thread : Thread, name : Name]
      BY <2>1 DEF Update
    <2> QED
      BY <2>1, <2>2, Unmoved DEF OnTopicRenamed
  <1>2. CASE UNCHANGED <<life, tables, memory, work, herd>>
    BY <1>1, <1>2, IgnoredTyped DEF TypeOK
  <1>3. CASE SaveFails
    BY <1>1, <1>3, SaveFailsTyped DEF TypeOK
  <1>4. CASE /\ Holders(topics, t) # {} /\ k \in KeysOf(agents)
             /\ Saved(Typed(k, n), pending)
             /\ \/ deb' = deb \cup {k} /\ UNCHANGED <<agents, herd>>
                \/ Renames(k)
             /\ UNCHANGED <<due, rightsLost, life, work>>
    <2>1. k \in Key
      BY <1>4, OwnerHolds
    <2>2. Typed(k, n) \in Tables
      BY <1>1, <2>1, OwnerTyped DEF Typed
    <2>3. TablesOK'
      BY <1>4, <2>2, EntryHere, SavedTyped
    <2>6. MemoryOK' /\ HerdOK'
      <3>1. CASE deb' = deb \cup {k} /\ UNCHANGED <<agents, herd>>
        BY <1>4, <2>1, <3>1 DEF TypeOK, MemoryOK, HerdOK, herd
      <3>2. CASE Renames(k)
        BY <1>4, <3>2, RenamesTyped
      <3> QED
        BY <1>4, <3>1, <3>2
    <2>7. UNCHANGED life /\ UNCHANGED work
      BY <1>4
    <2> QED
      BY <1>1, <2>3, <2>6, <2>7, Unmoved DEF TypeOK
  <1> QED
    BY <1>2, <1>3, <1>4 DEF OnTopicRenamed

LEMMA OnRightsChangedTyped == TypeOK /\ OnRightsChanged => TypeOK'
  <1> SUFFICES ASSUME TypeOK, OnRightsChanged PROVE TypeOK'
    OBVIOUS
  <1>1. ForumTyped'
    BY TookTyped DEF OnRightsChanged
  <1>2. WorkOK' /\ HerdOK' /\ steps' \in Nat
    <2>1. CASE ReplayStarts(FALSE)
      BY <2>1, ReplayTyped
    <2>2. CASE UNCHANGED <<work, herd, steps>>
      <3>1. UNCHANGED work /\ UNCHANGED herd /\ UNCHANGED steps
        BY <2>2
      <3> QED
        BY <3>1, Unmoved DEF TypeOK, EnvOK
    <2> QED
      BY <2>1, <2>2 DEF OnRightsChanged
  <1>3. MemoryOK' /\ EnvOK'
    BY <1>2 DEF OnRightsChanged, TypeOK, MemoryOK, EnvOK
  <1>4. UNCHANGED life /\ UNCHANGED tables
    BY DEF OnRightsChanged
  <1> QED
    BY <1>1, <1>2, <1>3, <1>4, Unmoved DEF TypeOK

THEOREM TakeTyped == TypeOK /\ OneEntryPerTopic /\ Take => TypeOK'
  BY TakeEventTyped, TakeDueTyped, CatchUpTyped, SweepStartsTyped, OnTopicClosedTyped,
     OnTopicReopenedTyped, OnTopicRenamedTyped, OnRightsChangedTyped DEF Take

LEMMA StartTyped == TypeOK /\ Start => TypeOK'
  <1> SUFFICES ASSUME TypeOK, Start PROVE TypeOK'
    OBVIOUS
  <1>1. LifeOK'
    BY DEF Start, LifeOK
  <1>2. MemoryOK'
    BY DEF Start, TypeOK, MemoryOK
  <1>3. WorkOK'
    BY DEF Start, TypeOK, WorkOK, Phases
  <1>4. HerdOK'
    BY DEF Start, TypeOK, HerdOK
  <1>5. UNCHANGED tables /\ UNCHANGED forum /\ UNCHANGED env
    BY DEF Start
  <1> QED
    BY <1>1, <1>2, <1>3, <1>4, <1>5, Unmoved DEF TypeOK

LEMMA ClearDashboardTyped == TypeOK /\ ClearDashboard => TypeOK'
  <1> SUFFICES ASSUME TypeOK, ClearDashboard PROVE TypeOK'
    OBVIOUS
  <1>1. TablesOK'
    BY DEF ClearDashboard, TypeOK, TablesOK
  <1>2. /\ UNCHANGED life /\ UNCHANGED memory /\ UNCHANGED work /\ UNCHANGED herd
        /\ UNCHANGED forum /\ UNCHANGED env
    BY DEF ClearDashboard
  <1> QED
    BY <1>1, <1>2, Unmoved DEF TypeOK

LEMMA CrashTyped == TypeOK /\ Crash => TypeOK'
  <1> SUFFICES ASSUME TypeOK, Crash PROVE TypeOK'
    OBVIOUS
  <1>1. inbox' \in Seq(Update)
    BY EmptySeq DEF Crash, TypeOK, ForumTyped
  <1>2. ForumTyped' /\ EnvOK'
    BY <1>1 DEF Crash, Does, TypeOK, ForumTyped, EnvOK
  <1> QED
    BY <1>2, FatalTyped DEF Crash, Ends, TypeOK

LEMMA StopStartsTyped == TypeOK /\ StopStarts => TypeOK'
  <1> SUFFICES ASSUME TypeOK, StopStarts PROVE TypeOK'
    OBVIOUS
  <1>1. deb \in SUBSET Key /\ "stop" \in Phases
    BY DEF TypeOK, MemoryOK, Phases
  <1>2. WorkOK'
    BY <1>1, EnterTyped DEF StopStarts
  <1>3. MemoryOK' /\ EnvOK'
    BY DEF StopStarts, Does, TypeOK, MemoryOK, EnvOK
  <1>4. UNCHANGED life /\ UNCHANGED tables /\ UNCHANGED herd /\ UNCHANGED forum
    BY DEF StopStarts
  <1> QED
    BY <1>2, <1>3, <1>4, Unmoved DEF TypeOK

LEMMA AgentsChangeTyped == TypeOK /\ AgentsChange => TypeOK'
  <1> SUFFICES ASSUME TypeOK, AgentsChange PROVE TypeOK'
    OBVIOUS
  <1>1. PICK W \in Worlds : registry' = W /\ events' = events \o SnapshotEvents(registry, W)
    BY DEF AgentsChange
  <1>2. SnapshotEvents(registry, W) \in Seq(Event) /\ events \in Seq(Event)
    BY SnapshotTyped DEF TypeOK, HerdOK
  <1>3. HerdOK'
    BY <1>1, <1>2, ConcatProperties DEF HerdOK
  <1>4. EnvOK'
    BY DEF AgentsChange, Does, TypeOK, EnvOK
  <1>5. /\ UNCHANGED life /\ UNCHANGED tables /\ UNCHANGED memory /\ UNCHANGED work
        /\ UNCHANGED forum
    BY DEF AgentsChange
  <1> QED
    BY <1>3, <1>4, <1>5, Unmoved DEF TypeOK

LEMMA TellsTyped ==
  ASSUME TypeOK, NEW u \in Update, Tells(u)
  PROVE  inbox' \in Seq(Update)
  BY AppendProperties DEF Tells, TypeOK, ForumTyped

LEMMA OperatorActsTyped == TypeOK /\ OperatorActs => TypeOK'
  <1> SUFFICES ASSUME TypeOK, OperatorActs PROVE TypeOK'
    OBVIOUS
  <1>1. PICK t \in Thread :
       \/ /\ Does("close")
          /\ Hand(t, [tg[t] EXCEPT !.state = "closed"], [kind |-> "closed", thread |-> t])
       \/ /\ Does("reopen")
          /\ Hand(t, [tg[t] EXCEPT !.state = "open"], [kind |-> "reopened", thread |-> t])
       \/ /\ Does("rename")
          /\ \E n \in Name :
               Hand(t, [tg[t] EXCEPT !.name = n], [kind |-> "renamed", thread |-> t, name |-> n])
       \/ /\ Does("delete")
          /\ tg' = [tg EXCEPT ![t].state = "deleted"] /\ inbox' = inbox
    BY DEF OperatorActs
  <1>2. tg \in [Thread -> TopicState] /\ tg[t] \in TopicState /\ inbox \in Seq(Update)
    BY DEF TypeOK, ForumTyped
  <1>3. \A v \in TopicState : [tg EXCEPT ![t] = v] \in [Thread -> TopicState]
    BY <1>2
  <1>4. /\ \A s \in {"open", "closed", "deleted"} : [tg[t] EXCEPT !.state = s] \in TopicState
        /\ \A n \in Name : [tg[t] EXCEPT !.name = n] \in TopicState
    BY <1>2 DEF TopicState
  <1>5. /\ \A s \in {"closed", "reopened"} : [kind |-> s, thread |-> t] \in Update
        /\ \A n \in Name : [kind |-> "renamed", thread |-> t, name |-> n] \in Update
    BY DEF Update
  <1>6. ASSUME NEW v \in TopicState, NEW u \in Update, Hand(t, v, u)
        PROVE  tg' \in [Thread -> TopicState] /\ inbox' \in Seq(Update)
    BY <1>3, <1>6, TellsTyped DEF Hand
  <1>7. tg' \in [Thread -> TopicState] /\ inbox' \in Seq(Update)
    <2>1. CASE Hand(t, [tg[t] EXCEPT !.state = "closed"], [kind |-> "closed", thread |-> t])
      BY <2>1, <1>4, <1>5, <1>6
    <2>2. CASE Hand(t, [tg[t] EXCEPT !.state = "open"], [kind |-> "reopened", thread |-> t])
      BY <2>2, <1>4, <1>5, <1>6
    <2>3. CASE \E n \in Name :
               Hand(t, [tg[t] EXCEPT !.name = n], [kind |-> "renamed", thread |-> t, name |-> n])
      BY <2>3, <1>4, <1>5, <1>6
    <2>4. CASE tg' = [tg EXCEPT ![t].state = "deleted"] /\ inbox' = inbox
      <3>1. tg' = [tg EXCEPT ![t] = [tg[t] EXCEPT !.state = "deleted"]]
        BY <2>4
      <3> QED
        BY <2>4, <3>1, <1>2, <1>3, <1>4
    <2> QED
      BY <1>1, <2>1, <2>2, <2>3, <2>4
  <1>8. ForumTyped' /\ EnvOK'
    BY <1>1, <1>7 DEF OperatorActs, Does, TypeOK, ForumTyped, EnvOK
  <1>9. /\ UNCHANGED life /\ UNCHANGED tables /\ UNCHANGED memory /\ UNCHANGED work
        /\ UNCHANGED herd
    BY DEF OperatorActs
  <1> QED
    BY <1>8, <1>9, Unmoved DEF TypeOK

LEMMA RightChangesTyped == TypeOK /\ RightChanges => TypeOK'
  <1> SUFFICES ASSUME TypeOK, RightChanges PROVE TypeOK'
    OBVIOUS
  <1>1. canManage' \in BOOLEAN
    BY DEF RightChanges, TypeOK, ForumTyped
  <1>2. [kind |-> "rights", granted |-> canManage'] \in Update
    BY <1>1 DEF Update
  <1>3. inbox' \in Seq(Update)
    BY <1>2, TellsTyped DEF RightChanges
  <1>4. ForumTyped' /\ EnvOK'
    BY <1>1, <1>3 DEF RightChanges, Does, TypeOK, ForumTyped, EnvOK
  <1>5. /\ UNCHANGED life /\ UNCHANGED tables /\ UNCHANGED memory /\ UNCHANGED work
        /\ UNCHANGED herd
    BY DEF RightChanges
  <1> QED
    BY <1>4, <1>5, Unmoved DEF TypeOK

LEMMA CalendarTyped == TypeOK /\ (HoldChanges \/ AskResync \/ DaysPass) => TypeOK'
  <1> SUFFICES ASSUME TypeOK, HoldChanges \/ AskResync \/ DaysPass PROVE TypeOK'
    OBVIOUS
  <1>1. held' \in BOOLEAN
    BY DEF HoldChanges, AskResync, DaysPass, TypeOK, EnvOK
  <1>3. wake' \in {"none", "replay", "resync"}
    BY DEF HoldChanges, AskResync, DaysPass, TypeOK, EnvOK
  <1>4. now' \in Nat /\ steps' \in Nat
    BY DEF HoldChanges, AskResync, DaysPass, Does, TypeOK, EnvOK
  <1>5. EnvOK'
    BY <1>1, <1>3, <1>4 DEF EnvOK
  <1>2. /\ UNCHANGED life /\ UNCHANGED tables /\ UNCHANGED memory /\ UNCHANGED work
        /\ UNCHANGED herd /\ UNCHANGED forum
    BY DEF HoldChanges, AskResync, DaysPass
  <1> QED
    BY <1>5, <1>2, Unmoved DEF TypeOK

THEOREM WorldTypedToo == TypeOK /\ World => TypeOK'
  BY ClearDashboardTyped, CrashTyped, StopStartsTyped, AgentsChangeTyped, OperatorActsTyped,
     RightChangesTyped, CalendarTyped DEF World

---------------------------------------------------------------------------

LEMMA InitTyped == Init => TypeOK
  <1> SUFFICES ASSUME Init PROVE TypeOK
    OBVIOUS
  <1>1. topics \in Tables
    BY NoEntryInBounds DEF Init, Tables
  <1>2. disk \in [topics : Tables, pending : SUBSET Key]
    BY <1>1 DEF Init
  <1>3. TablesOK
    BY <1>1, <1>2 DEF Init, TablesOK
  <1>4. batch \in Seq(Event) /\ events \in Seq(Event) /\ inbox \in Seq(Update)
    BY EmptySeq DEF Init
  <1>5. WorkOK
    <2>1. phase \in Phases /\ at \in Steps
      BY DEF Init, Phases, Steps
    <2>2. made \in 0..MaxThread
      BY BoundsAssumption DEF Init
    <2> QED
      BY <1>4, <2>1, <2>2, AnyKeyIsKey DEF Init, WorkOK
  <1>6. ForumTyped
    <2>1. Unused \in TopicState
      BY DEF Unused, TopicState
    <2> QED
      BY <1>4, <2>1, AnyKeyIsKey DEF Init, ForumTyped
  <1>7. LifeOK /\ MemoryOK /\ EnvOK
    BY DEF Init, LifeOK, MemoryOK, EnvOK
  <1>8. HerdOK
    BY <1>4 DEF Init, HerdOK
  <1> QED
    BY <1>3, <1>5, <1>6, <1>7, <1>8 DEF TypeOK

(* Every step keeps the types, where the step has its agent and its entry. *)
THEOREM StepsAreTyped == TypeOK /\ StepOK /\ OneEntryPerTopic /\ [Next]_vars => TypeOK'
  <1>1. TypeOK /\ UNCHANGED vars => TypeOK'
    <2> SUFFICES ASSUME TypeOK, UNCHANGED vars PROVE TypeOK'
      OBVIOUS
    <2>1. /\ UNCHANGED life /\ UNCHANGED tables /\ UNCHANGED memory /\ UNCHANGED work
          /\ UNCHANGED herd /\ UNCHANGED forum /\ UNCHANGED env
      BY DEF vars
    <2> QED
      BY <2>1, Unmoved DEF TypeOK
  <1> QED
    BY <1>1, OperationTyped, LoopTyped, TakeTyped, TimerFiresTyped, StartTyped, WorldTypedToo DEF Next

---------------------------------------------------------------------------
(* Safety.                                                                 *)

(* What a step may do to the forum: no topic appears.                      *)
Shrinks ==
  /\ \A t \in Thread : /\ tg'[t].state \in {"open", "closed"} => Exists(t)
                       /\ tg[t].state # "unused" => tg'[t].state # "unused"
                       /\ Gone(t) => tg'[t].state = "deleted"
  /\ home' = home /\ strays' = strays

(* What a step may do to the file: it lets go of deleted topics only.      *)
Lets == \A t \in Linked(disk.topics) \ Linked(disk'.topics) : Gone(t)

Good == IInv' /\ Lets

LEMMA LinkedInThread ==
  ASSUME NEW tt \in Tables
  PROVE  Linked(tt) \subseteq Thread
  BY BoundsAssumption DEF Linked, Mapped, Tables, Thread

LEMMA ForumStays == UNCHANGED forum => Shrinks
  BY DEF forum, Shrinks, Exists, Gone

LEMMA TopicMoves ==
  ASSUME TypeOK, NEW t, Exists(t), NEW v, v.state \in {"open", "closed", "deleted"},
         tg' = [tg EXCEPT ![t] = v], home' = home, strays' = strays
  PROVE  Shrinks
  <1>1. \A u \in Thread : u # t => tg'[u] = tg[u]
    BY DEF TypeOK, ForumTyped
  <1>2. t \in Thread => tg'[t] = v
    BY DEF TypeOK, ForumTyped
  <1> QED
    BY <1>1, <1>2 DEF Shrinks, Exists, Gone

LEMMA CallMoves ==
  ASSUME TypeOK, NEW t, NEW v, v.state \in {"open", "closed", "deleted"},
         UNCHANGED forum \/ (Exists(t) /\ Effect(t, v))
  PROVE  Shrinks
  BY ForumStays, TopicMoves DEF Effect

LEMMA ForgetLinked ==
  ASSUME NEW tt \in Tables, NEW k \in Key
  PROVE  /\ Linked(Forget(tt, k)) \subseteq Linked(tt)
         /\ \A t \in Linked(tt) : t \notin Linked(Forget(tt, k)) => t = tt[k].thread
         /\ Single(tt) => Single(Forget(tt, k))
         /\ Mapped(Forget(tt, k)) = Mapped(tt) \ {k}
  <1> DEFINE new == Forget(tt, k)
  <1>1. \A l \in Key : l # k => new[l] = tt[l]
    BY DEF Forget, Tables
  <1>2. new[k].thread = 0
    BY DEF Forget, Tables, NoEntry
  <1> HIDE DEF new
  <1>3. Mapped(new) = Mapped(tt) \ {k}
    BY <1>1, <1>2 DEF Mapped
  <1>4. \A l \in Mapped(new) : l \in Mapped(tt) /\ new[l] = tt[l]
    BY <1>1, <1>3 DEF Mapped
  <1>5. /\ Linked(new) \subseteq Linked(tt)
        /\ \A t \in Linked(tt) : t \notin Linked(new) => t = tt[k].thread
    BY <1>3, <1>4 DEF Linked
  <1>6. Single(tt) => Single(new)
    BY <1>4 DEF Single
  <1> QED
    BY <1>3, <1>5, <1>6 DEF new

(* A record changes no topic of any key.                                   *)
LEMMA SameThreads ==
  ASSUME NEW tt, NEW new, \A k \in Key : new[k].thread = tt[k].thread
  PROVE  Mapped(new) = Mapped(tt) /\ Linked(new) = Linked(tt) /\ (Single(tt) => Single(new))
  <1>1. Mapped(new) = Mapped(tt)
    BY DEF Mapped
  <1>2. Linked(new) = Linked(tt)
    <2>1. \A k \in Mapped(tt) : new[k].thread = tt[k].thread
      BY DEF Mapped
    <2> QED
      BY <1>1, <2>1 DEF Linked
  <1> QED
    BY <1>1, <1>2 DEF Mapped, Single

LEMMA TouchThreads ==
  ASSUME TypeOK, NEW k \in Key, NEW e \in Entry, e.thread = topics[k].thread
  PROVE  \A l \in Key : Touch(k, e)[l].thread = topics[l].thread
  BY DEF TypeOK, TablesOK, Tables, Touch, Entry

---------------------------------------------------------------------------
(* The parts about Telegram survive a step after which no topic exists     *)
(* that did not, and none is missing from the file but deleted ones.       *)
LEMMA ForumSurvives ==
  ASSUME TypeOK, IInv, Shrinks, Lets,
         disk' \in Records, Linked(disk'.topics) \subseteq Linked(disk.topics),
         disk.pending \subseteq disk'.pending
  PROVE  /\ NoLostTopic' /\ OneUnknownTopic'
         /\ \A t \in Linked(disk'.topics) : tg'[t].state # "unused"
         /\ \A t \in Thread : (tg'[t].state \in {"open", "closed"} /\ Known(t)) => Known(t)'
  <1>1. Linked(disk.topics) \subseteq Thread /\ Linked(disk'.topics) \subseteq Thread
    BY EntryHere, LinkedInThread DEF Records
  <1>2. \A t \in Linked(disk'.topics) : tg'[t].state # "unused"
    BY <1>1 DEF IInv, ForumOK, Shrinks
  <1>3. \A t \in Thread : tg'[t].state \in {"open", "closed"} =>
          Exists(t) /\ (t \in Linked(disk.topics) => t \in Linked(disk'.topics))
    BY DEF Shrinks, Lets, Exists, Gone
  <1>4. NoLostTopic'
    BY <1>3 DEF IInv, NoLostTopic, Shrinks, Exists
  <1>5. OneUnknownTopic'
    BY <1>3 DEF IInv, OneUnknownTopic, Shrinks, Exists
  <1>6. \A t \in Thread : (tg'[t].state \in {"open", "closed"} /\ Known(t)) => Known(t)'
    BY <1>3 DEF Known, Shrinks
  <1> QED
    BY <1>2, <1>4, <1>5, <1>6

Asked == {"creating", "rejected", "migrated", "link"}

(* A step outside a creation.                                              *)
LEMMA Calm ==
  ASSUME TypeOK, IInv, Shrinks, Lets,
         disk' \in Records, Linked(disk'.topics) \subseteq Linked(disk.topics),
         disk.pending \subseteq disk'.pending,
         Single(topics'), Single(disk'.topics), StepOK', DiskOK', at' \notin Asked
  PROVE  Good
  <1>1. /\ NoLostTopic' /\ OneUnknownTopic'
        /\ \A t \in Linked(disk'.topics) : tg'[t].state # "unused"
    BY ForumSurvives
  <1>2. ForumOK'
    BY <1>1 DEF ForumOK, Asked
  <1> QED
    BY <1>1, <1>2 DEF Good, IInv, OneEntryPerTopic

LEMMA FileStays ==
  ASSUME TypeOK, disk' = disk
  PROVE  /\ Lets /\ disk' \in Records /\ Linked(disk'.topics) \subseteq Linked(disk.topics)
         /\ disk.pending \subseteq disk'.pending
  BY EntryHere DEF Lets

(* What the world, or another goroutine, does meanwhile.                   *)
LEMMA Meanwhile ==
  ASSUME TypeOK, IInv, Shrinks, UNCHANGED <<topics, pending, disk>>,
         UNCHANGED <<up, agents, phase, at, key, made, left>>
  PROVE  Good
  <1>1. /\ NoLostTopic' /\ OneUnknownTopic' /\ Lets
        /\ \A t \in Linked(disk'.topics) : tg'[t].state # "unused"
        /\ \A t \in Thread : (tg'[t].state \in {"open", "closed"} /\ Known(t)) => Known(t)'
    BY FileStays, ForumSurvives
  <1>2. \A k \in Mapped(topics) \cup Mapped(disk.topics) :
          /\ k \in Mapped(topics) => topics[k].thread \in Thread
          /\ k \in Mapped(disk.topics) => disk.topics[k].thread \in Thread
    BY EntryHere, LinkedInThread DEF Linked, Records
  <1>3. StepOK'
    <2>1. at = "deleted" => Gone(topics[key].thread)'
      BY <1>2 DEF IInv, StepOK, StepsOnTopics, Shrinks, Gone
    <2> QED
      BY <2>1 DEF IInv, StepOK
  <1>4. DiskOK'
    <2>1. key \in Key
      BY EntryHere
    <2> QED
      BY <1>2, <2>1 DEF IInv, DiskOK, Shrinks, Gone, Mapped
  <1>5. ForumOK'
    <2>1. \A t \in Thread : tg'[t].state \in {"open", "closed"} => Exists(t)
      BY DEF Shrinks
    <2>2. home' = home
      BY DEF Shrinks
    <2>3. made \in Thread /\ tg[made].state # "unused" => tg'[made].state # "unused"
      BY DEF Shrinks
    <2> QED
      BY <1>1, <2>1, <2>2, <2>3 DEF IInv, ForumOK, Exists
  <1>6. OneEntryPerTopic'
    BY DEF IInv, OneEntryPerTopic
  <1> QED
    BY <1>1, <1>3, <1>4, <1>5, <1>6 DEF Good, IInv

(* The process ends, with the file as it is.                               *)
LEMMA Ended ==
  ASSUME TypeOK, IInv, NEW why, Fatal(why), Shrinks
  PROVE  Good
  <1>1. /\ disk' = disk /\ topics' = disk.topics /\ pending' = disk.pending
        /\ at' = "none" /\ phase' = "idle"
    BY DEF Fatal, Down
  <1>2. Single(topics') /\ Single(disk'.topics)
    BY <1>1 DEF IInv, OneEntryPerTopic
  <1>3. StepOK'
    BY <1>1 DEF StepOK, StepsOnAgents, StepsOnTopics, Asking
  <1>4. DiskOK'
    BY <1>1 DEF DiskOK
  <1> QED
    BY <1>1, <1>2, <1>3, <1>4, FileStays, Calm DEF Asked

LEMMA SaveFailed ==
  ASSUME TypeOK, IInv, SaveFails, Shrinks
  PROVE  Good
  BY Ended DEF SaveFails

(* An operation comes to its end, whatever its loop does next.             *)
LEMMA Rested ==
  ASSUME TypeOK, IInv, at' = "none", up' = up, up, agents' = agents,
         phase' = "live" => left' \subseteq KeysOf(agents)
  PROVE  StepOK'
  BY DEF StepOK, StepsOnAgents, StepsOnTopics, Asking

LEMMA ReturnRests ==
  ASSUME IInv, Return \/ Fail
  PROVE  at' = "none" /\ (phase' = "live" => left' \subseteq KeysOf(agents))
  <1>1. CASE Return
    BY <1>1 DEF Return, Over, IInv, StepOK
  <1>2. CASE Fail
    BY <1>2 DEF Fail, Over
  <1> QED
    BY <1>1, <1>2

(* It comes to its end and the tables stay.                                *)
LEMMA LeftAlone ==
  ASSUME TypeOK, IInv, at # "none", at # "intent", Return \/ Fail, Shrinks,
         UNCHANGED <<life, tables, memory>>
  PROVE  Good
  <1>1. /\ up' = up /\ topics' = topics /\ pending' = pending /\ disk' = disk
        /\ agents' = agents
    BY DEF life, tables, memory
  <1>2. up
    BY DEF IInv, StepOK
  <1>3. StepOK' /\ at' = "none"
    BY <1>1, <1>2, ReturnRests, Rested
  <1>4. DiskOK'
    BY <1>1 DEF IInv, DiskOK
  <1>5. Single(topics') /\ Single(disk'.topics)
    BY <1>1 DEF IInv, OneEntryPerTopic
  <1> QED
    BY <1>1, <1>3, <1>4, <1>5, FileStays, Calm DEF Asked

(* It comes to its end with a new table, that holds the same topics but    *)
(* deleted ones.                                                           *)
LEMMA EndedWith ==
  ASSUME TypeOK, IInv, at # "none", at # "intent", NEW new \in Tables, Saved(new, pending),
         Linked(new) \subseteq Linked(topics), Single(new),
         \A t \in Linked(topics) \ Linked(new) : Gone(t),
         Return, Shrinks, UNCHANGED <<life, memory>>
  PROVE  Good
  <1>1. /\ up' = up /\ agents' = agents /\ topics' = new /\ pending' = pending
        /\ disk' = [topics |-> new, pending |-> pending]
        /\ disk'.topics = new /\ disk'.pending = pending
    BY DEF life, memory, Saved
  <1>2. up /\ disk.topics = topics /\ disk.pending = pending
    BY DEF IInv, StepOK, DiskOK
  <1>3. StepOK' /\ at' = "none"
    BY <1>1, <1>2, ReturnRests, Rested
  <1>4. DiskOK'
    BY <1>1 DEF DiskOK
  <1>5. disk' \in Records
    BY <1>1, EntryHere DEF Records
  <1>6. Lets
    BY <1>1, <1>2 DEF Lets
  <1> QED
    BY <1>1, <1>2, <1>3, <1>4, <1>5, <1>6, Calm DEF Asked

LEMMA Forgotten ==
  ASSUME TypeOK, IInv, at # "none", at # "intent", Gone(topics[key].thread),
         Saved(Forget(topics, key), pending), Return, Shrinks, UNCHANGED <<life, memory>>
  PROVE  Good
  <1>1. topics \in Tables /\ key \in Key
    BY EntryHere
  <1>2. Forget(topics, key) \in Tables /\ Single(topics)
    BY <1>1, ForgetInTables DEF IInv, OneEntryPerTopic
  <1>3. /\ Linked(Forget(topics, key)) \subseteq Linked(topics) /\ Single(Forget(topics, key))
        /\ \A t \in Linked(topics) \ Linked(Forget(topics, key)) : Gone(t)
    BY <1>1, <1>2, ForgetLinked
  <1> QED
    BY <1>2, <1>3, EndedWith

LEMMA Failed ==
  ASSUME TypeOK, IInv, at \notin {"none", "intent"}, NEW v, v.state \in {"open", "closed", "deleted"},
         FailPolicy(topics[key].thread, v)
  PROVE  Good
  <1> DEFINE t == topics[key].thread
  <1>1. Shrinks
    BY CallMoves DEF FailPolicy, Skipped, Survived, MaybeEffect, Forbidden
  <1>2. CASE SaveFails \/ Fatal("forbidden")
    BY <1>1, <1>2, SaveFailed, Ended
  <1>3. CASE /\ Gone(t) /\ Saved(Forget(topics, key), pending) /\ Return
             /\ UNCHANGED <<life, memory, herd>>
    <2>1. UNCHANGED <<life, memory>>
      BY <1>3
    <2> QED
      BY <1>1, <1>3, <2>1, Forgotten
  <1>4. CASE (Return \/ Fail) /\ UNCHANGED <<life, tables, memory, herd>>
    <2>1. UNCHANGED <<life, tables, memory>>
      BY <1>4
    <2> QED
      BY <1>1, <1>4, <2>1, LeftAlone
  <1> QED
    BY <1>2, <1>3, <1>4 DEF FailPolicy, Forbidden

(* The step leaves no mark in the tables, the loop goes on to another one. *)
LEMMA Goes ==
  ASSUME TypeOK, IInv, at \notin {"none", "intent"}, NEW step, step \notin Asked, Goto(step, key),
         Shrinks, UNCHANGED <<life, tables, memory>>,
         step \in StepsOnAgents => key \in KeysOf(agents),
         step \in StepsOnTopics => key \in Mapped(topics),
         step = "create" => key \notin Mapped(topics) \/ ~Live(topics[key]),
         step = "intent" => key \notin Mapped(topics),
         step = "deleted" => tg'[topics[key].thread].state = "deleted"
  PROVE  Good
  <1>1. /\ up' = up /\ topics' = topics /\ pending' = pending /\ disk' = disk
        /\ agents' = agents /\ at' = step /\ key' = key /\ phase' = phase /\ left' = left
    BY DEF life, tables, memory, Goto
  <1>2. StepOK'
    BY <1>1 DEF IInv, StepOK, Asking, Asked, Gone
  <1>3. DiskOK'
    BY <1>1 DEF IInv, DiskOK
  <1>4. Single(topics') /\ Single(disk'.topics)
    BY <1>1 DEF IInv, OneEntryPerTopic
  <1> QED
    BY <1>1, <1>2, <1>3, <1>4, FileStays, Calm

LEMMA Proceeds ==
  ASSUME TypeOK, IInv, at \notin {"none", "intent"}, NEW step, step \notin Asked \cup {"deleted"},
         Proceed(step),
         step \in StepsOnAgents => key \in KeysOf(agents),
         step \in StepsOnTopics => key \in Mapped(topics),
         step = "create" => key \notin Mapped(topics) \/ ~Live(topics[key]),
         step = "intent" => key \notin Mapped(topics)
  PROVE  Good
  <1>1. Goto(step, key) /\ UNCHANGED <<life, tables, memory>> /\ Shrinks
    BY ForumStays DEF Proceed
  <1> QED
    BY <1>1, Goes

LEMMA Quits ==
  ASSUME TypeOK, IInv, at \notin {"none", "intent"}, Quit
  PROVE  Good
  <1>1. Return /\ UNCHANGED <<life, tables, memory>> /\ Shrinks
    BY ForumStays DEF Quit
  <1> QED
    BY <1>1, LeftAlone

LEMMA Answers ==
  ASSUME TypeOK, IInv, at \notin {"none", "intent"}, NEW v, v.state \in {"open", "closed", "deleted"},
         NEW next \in {"edited", "exited", "closed"}, key \in Mapped(topics),
         next = "edited" => key \in KeysOf(agents),
         Answered(topics[key].thread, v, next)
  PROVE  Good
  <1>1. CASE FailPolicy(topics[key].thread, v)
    BY <1>1, Failed
  <1>2. CASE /\ Succeeds(topics[key].thread, v) /\ Goto(next, key)
             /\ UNCHANGED <<life, tables, memory, herd>>
    <2>1. Shrinks
      BY <1>2, CallMoves DEF Succeeds
    <2>2. next \notin Asked \cup {"create", "intent", "deleted"}
      BY DEF Asked
    <2>3. next \in StepsOnAgents => next = "edited"
      BY DEF StepsOnAgents
    <2> QED
      BY <1>2, <2>1, <2>2, <2>3, Goes
  <1> QED
    BY <1>1, <1>2 DEF Answered

LEMMA RecordSaved ==
  ASSUME TypeOK, IInv, at \notin {"none", "intent"}, key \in Mapped(topics),
         NEW e \in Entry, e.thread = topics[key].thread,
         NEW next \in {"none", "refreshing", "close"},
         next = "refreshing" => key \in KeysOf(agents),
         Recorded(e, next)
  PROVE  Good
  <1> DEFINE new == Touch(key, e)
  <1>1. Shrinks
    BY ForumStays DEF Recorded
  <1>2. key \in Key /\ topics[key].thread \in 0..MaxThread
    BY EntryHere
  <1>3. /\ new \in Tables /\ Mapped(new) = Mapped(topics) /\ Linked(new) = Linked(topics)
        /\ Single(topics) => Single(new)
    BY <1>2, TouchTyped, TouchThreads, SameThreads
  <1>4. Single(topics) /\ disk.topics = topics /\ disk.pending = pending
    BY DEF IInv, OneEntryPerTopic, DiskOK
  <1> HIDE DEF new
  <1>5. CASE SaveFails
    BY <1>1, <1>5, SaveFailed
  <1>6. CASE next = "none" /\ Saved(new, pending) /\ Return /\ UNCHANGED <<life, memory, herd>>
    <2>1. UNCHANGED <<life, memory>>
      BY <1>6
    <2> QED
      BY <1>1, <1>3, <1>4, <1>6, <2>1, EndedWith
  <1>7. CASE /\ next # "none" /\ Saved(new, pending) /\ Goto(next, key)
             /\ UNCHANGED <<life, memory, herd>>
    <2>1. /\ up' = up /\ agents' = agents /\ topics' = new /\ pending' = pending
          /\ disk' = [topics |-> new, pending |-> pending]
          /\ disk'.topics = new /\ disk'.pending = pending
          /\ at' = next /\ key' = key /\ phase' = phase /\ left' = left
      BY <1>7 DEF life, memory, Saved, Goto
    <2>2. next \in {"refreshing", "close"} /\ next \notin Asking /\ next \notin Asked
      BY <1>7 DEF Asking, Asked
    <2>3. next \in StepsOnAgents => next = "refreshing"
      BY DEF StepsOnAgents
    <2>4. StepOK'
      BY <1>3, <2>1, <2>2, <2>3 DEF IInv, StepOK
    <2>5. DiskOK'
      BY <2>1 DEF DiskOK
    <2>6. disk' \in Records
      BY <1>3, <2>1, EntryHere DEF Records
    <2>7. Lets
      BY <1>3, <1>4, <2>1 DEF Lets
    <2> QED
      BY <1>1, <1>3, <1>4, <2>1, <2>2, <2>4, <2>5, <2>6, <2>7, Calm
  <1> QED
    BY <1>5, <1>6, <1>7 DEF Recorded, new

---------------------------------------------------------------------------
(* The operations.                                                         *)

Before == TypeOK /\ IInv

LEMMA CreateGood == Before /\ Create => Good
  <1> SUFFICES ASSUME Before, Create PROVE Good
    OBVIOUS
  <1>1. /\ at \notin {"none", "intent"} /\ key \in KeysOf(agents)
        /\ key \notin Mapped(topics) \/ ~Live(topics[key])
    BY DEF Before, IInv, StepOK, StepsOnAgents, Create
  <1>2. CASE Quit
    BY <1>1, <1>2, Quits DEF Before
  <1>3. CASE key \in Mapped(topics) /\ Proceed("revive")
    BY <1>1, <1>3, Proceeds DEF Before, Asked
  <1>4. CASE key \notin Mapped(topics) /\ Proceed("intent")
    <2>1. "intent" \notin StepsOnTopics /\ "intent" \notin Asked \cup {"deleted"}
      BY DEF StepsOnTopics, Asked
    <2> QED
      BY <1>1, <1>4, <2>1, Proceeds DEF Before
  <1> QED
    BY <1>1, <1>2, <1>3, <1>4 DEF Create

(* The mark is on disk before Telegram is asked; by NoLostTopic no topic   *)
(* of an unmarked key is unknown.                                          *)
LEMMA IntentGood == Before /\ Intent => Good
  <1> SUFFICES ASSUME Before, Intent PROVE Good
    OBVIOUS
  <1>1. Shrinks
    BY ForumStays DEF Intent
  <1>2. CASE Fatal("intent") \/ SaveFails
    BY <1>1, <1>2, Ended, SaveFailed DEF Before
  <1>3. CASE /\ key \notin pending
             /\ Saved(topics, pending \cup {key}) /\ Goto("creating", key)
             /\ UNCHANGED <<life, memory, herd>>
    <2>1. /\ up' = up /\ agents' = agents /\ topics' = topics /\ pending' = pending \cup {key}
          /\ disk' = [topics |-> topics, pending |-> pending \cup {key}]
          /\ disk'.topics = topics /\ disk'.pending = pending \cup {key}
          /\ at' = "creating" /\ key' = key /\ phase' = phase /\ left' = left
      BY <1>3 DEF life, memory, Saved, Goto
    <2>2. key \in Key /\ topics \in Tables /\ pending \in SUBSET Key
          /\ disk.topics \in Tables /\ disk' \in Records
      BY <2>1, EntryHere DEF Before, Records
    <2>3. /\ Linked(topics) \subseteq Linked(disk.topics)
          /\ \A t \in Linked(disk.topics) \ Linked(topics) : Gone(t)
      BY <2>2, ForgetLinked DEF Before, IInv, DiskOK
    <2>4. Lets /\ disk.pending = pending /\ disk.pending \subseteq disk'.pending
      BY <2>1, <2>3 DEF Before, IInv, DiskOK, Lets
    <2>5. /\ NoLostTopic' /\ OneUnknownTopic'
          /\ \A t \in Linked(disk'.topics) : tg'[t].state # "unused"
      BY <1>1, <2>1, <2>2, <2>3, <2>4, ForumSurvives DEF Before
    <2>6. StepOK'
      BY <2>1, <1>3 DEF Before, IInv, StepOK, Intent, Asking, StepsOnAgents, StepsOnTopics
    <2>7. DiskOK'
      BY <2>1 DEF DiskOK
    <2>8. \A t \in Thread : tg'[t].state \in {"open", "closed"} /\ home'[t] = key => Known(t)'
      <3> SUFFICES ASSUME NEW t \in Thread, tg'[t].state \in {"open", "closed"}, home'[t] = key
                   PROVE  Known(t)'
        OBVIOUS
      <3>1. Exists(t) /\ home[t] = key
        BY <1>1 DEF Shrinks
      <3>2. t \in Linked(disk.topics) \/ t \in strays
        BY <1>3, <2>4, <3>1 DEF Before, IInv, NoLostTopic
      <3>3. t \in Linked(disk.topics) => t \in Linked(topics)
        BY <2>3, <3>1 DEF Exists, Gone
      <3> QED
        BY <1>1, <2>1, <3>2, <3>3 DEF Known, Shrinks
    <2>9. ForumOK'
      BY <2>1, <2>5, <2>8 DEF ForumOK, Exists
    <2>10. OneEntryPerTopic'
      BY <2>1 DEF Before, IInv, OneEntryPerTopic
    <2> QED
      BY <2>4, <2>5, <2>6, <2>7, <2>9, <2>10 DEF Good, IInv
  <1> QED
    BY <1>2, <1>3 DEF Intent

(* Telegram makes a topic for the marked key.                              *)
LEMMA Made ==
  ASSUME Before, at = "creating", NEW t \in Fresh, Makes(t), strays' \in {strays, strays \cup {t}}
  PROVE  /\ t \in Thread /\ t \notin Linked(disk.topics)
         /\ tg'[t].state = "open" /\ home'[t] = key
         /\ \A u \in Thread : u # t => tg'[u] = tg[u] /\ home'[u] = home[u]
         /\ \A u \in Thread : tg[u].state # "unused" => u # t
         /\ disk' = disk => /\ NoLostTopic' /\ OneUnknownTopic'
                           /\ \A u \in Linked(disk'.topics) : tg'[u].state # "unused"
  <1>1. t \in Thread /\ tg[t].state = "unused"
    BY DEF Fresh
  <1>2. Linked(disk.topics) \subseteq Thread
    BY EntryHere, LinkedInThread DEF Before, Records
  <1>3. t \notin Linked(disk.topics)
    BY <1>1 DEF Before, IInv, ForumOK
  <1>4. tg'[t].state = "open" /\ home'[t] = key
    BY <1>1 DEF Makes, Before, TypeOK, ForumTyped
  <1>5. \A u \in Thread : u # t => tg'[u] = tg[u] /\ home'[u] = home[u]
    BY DEF Makes, Before, TypeOK, ForumTyped
  <1>6. key \in disk.pending
    BY DEF Before, IInv, StepOK, Asking, DiskOK
  <1>7. \A u \in Thread : Exists(u) /\ home[u] = key => Known(u)
    BY DEF Before, IInv, ForumOK
  <1>8. ASSUME disk' = disk PROVE NoLostTopic'
    <2> SUFFICES ASSUME NEW u \in Thread, tg'[u].state \in {"open", "closed"}
                 PROVE  u \in Linked(disk.topics) \/ home'[u] \in disk.pending \/ u \in strays'
      BY <1>8 DEF NoLostTopic, Exists
    <2>1. CASE u = t
      BY <2>1, <1>4, <1>6
    <2>2. CASE u # t
      BY <2>2, <1>5 DEF Before, IInv, NoLostTopic, Exists
    <2> QED
      BY <2>1, <2>2
  <1>9. ASSUME disk' = disk PROVE OneUnknownTopic'
    <2> SUFFICES ASSUME NEW u \in Thread, NEW w \in Thread,
                        tg'[u].state \in {"open", "closed"}, u \notin Linked(disk.topics) \cup strays',
                        tg'[w].state \in {"open", "closed"}, w \notin Linked(disk.topics) \cup strays',
                        home'[u] = home'[w]
                 PROVE  u = w
      BY <1>9 DEF OneUnknownTopic, Exists
    <2>1. u \notin strays /\ w \notin strays
      OBVIOUS
    <2>2. CASE u # t /\ w # t
      BY <2>1, <2>2, <1>5 DEF Before, IInv, OneUnknownTopic, Exists
    <2>3. CASE u = t /\ w # t
      BY <2>1, <2>3, <1>4, <1>5, <1>7 DEF Exists, Known
    <2>4. CASE u # t /\ w = t
      BY <2>1, <2>4, <1>4, <1>5, <1>7 DEF Exists, Known
    <2> QED
      BY <2>2, <2>3, <2>4
  <1>10. ASSUME disk' = disk PROVE \A u \in Linked(disk'.topics) : tg'[u].state # "unused"
    BY <1>2, <1>3, <1>5, <1>10 DEF Before, IInv, ForumOK
  <1> QED
    BY <1>1, <1>3, <1>4, <1>5, <1>8, <1>9, <1>10

(* The request made a topic and the operation is over, or the process.     *)
LEMMA MadeAndOver ==
  ASSUME Before, at = "creating", NEW t \in Fresh, Makes(t), UNCHANGED strays,
         \/ Fatal("create")
         \/ Fail /\ UNCHANGED <<life, tables, memory>>
  PROVE  Good
  <1>1. topics = disk.topics /\ pending = disk.pending /\ up
    BY DEF Before, IInv, DiskOK, StepOK
  <1>2. /\ at' = "none" /\ disk' = disk /\ topics' = topics /\ pending' = pending
        /\ phase' = "live" => left' \subseteq KeysOf(agents)
    <2>1. CASE Fatal("create")
      BY <1>1, <2>1 DEF Fatal, Down
    <2>2. CASE Fail /\ UNCHANGED <<life, tables, memory>>
      BY <2>2, ReturnRests DEF tables, Before
    <2> QED
      BY <2>1, <2>2
  <1>3. StepOK'
    <2>1. CASE Fatal("create")
      BY <2>1 DEF Fatal, Down, StepOK, StepsOnAgents, StepsOnTopics, Asking
    <2>2. CASE Fail /\ UNCHANGED <<life, tables, memory>>
      BY <1>1, <1>2, <2>2, Rested DEF life, memory, Before
    <2> QED
      BY <2>1, <2>2
  <1>4. NoLostTopic' /\ OneUnknownTopic' /\ \A u \in Linked(disk'.topics) : tg'[u].state # "unused"
    BY <1>2, Made
  <1>5. ForumOK'
    BY <1>2, <1>4 DEF ForumOK
  <1>6. DiskOK' /\ OneEntryPerTopic' /\ Lets
    BY <1>1, <1>2, FileStays DEF DiskOK, Before, IInv, OneEntryPerTopic
  <1> QED
    BY <1>3, <1>4, <1>5, <1>6 DEF Good, IInv

LEMMA MadeAndLink ==
  ASSUME Before, at = "creating", NEW t \in Fresh, Makes(t), made' = t, at' = "link",
         UNCHANGED <<strays, key, phase, batch, left, force>>,
         UNCHANGED <<life, tables, memory, herd>>
  PROVE  Good
  <1>1. /\ topics' = topics /\ pending' = pending /\ disk' = disk /\ up' = up /\ agents' = agents
        /\ key' = key /\ phase' = phase /\ left' = left /\ strays' = strays
    BY DEF life, tables, memory
  <1>2. StepOK'
    BY <1>1 DEF Before, IInv, StepOK, StepsOnAgents, StepsOnTopics, Asking
  <1>3. DiskOK' /\ OneEntryPerTopic' /\ Lets
    BY <1>1, FileStays DEF Before, IInv, DiskOK, OneEntryPerTopic
  <1>4. /\ t \in Thread /\ t \notin Linked(disk.topics)
        /\ tg'[t].state = "open" /\ home'[t] = key
        /\ \A u \in Thread : u # t => tg'[u] = tg[u] /\ home'[u] = home[u]
        /\ NoLostTopic' /\ OneUnknownTopic'
        /\ \A u \in Linked(disk'.topics) : tg'[u].state # "unused"
    BY <1>1, Made
  <1>5. ForumOK'
    <2>1. \A u \in Thread : tg'[u].state \in {"open", "closed"} /\ home'[u] = key => Known(u)' \/ u = t
      BY <1>1, <1>4 DEF Before, IInv, ForumOK, Exists, Known
    <2> QED
      BY <1>1, <1>4, <2>1 DEF ForumOK, Exists
  <1> QED
    BY <1>2, <1>3, <1>4, <1>5 DEF Good, IInv

LEMMA CreatingGood == Before /\ Creating => Good
  <1> SUFFICES ASSUME Before, Creating PROVE Good
    OBVIOUS
  <1>1. at = "creating"
    BY DEF Creating
  <1>2. CASE /\ \E t \in Fresh : Makes(t) /\ made' = t
             /\ at' = "link" /\ UNCHANGED <<strays, key, phase, batch, left, force>>
             /\ UNCHANGED <<life, tables, memory, herd>>
    BY <1>1, <1>2, MadeAndLink
  <1>3. CASE UNCHANGED forum /\ Fatal("create")
    BY <1>3, ForumStays, Ended DEF Before
  <1>4. CASE UNCHANGED strays /\ (\E t \in Fresh : Makes(t)) /\ Fatal("create")
    BY <1>1, <1>4, MadeAndOver
  <1>5. CASE UNCHANGED forum /\ Fail /\ UNCHANGED <<life, tables, memory, herd>>
    <2>1. UNCHANGED <<life, tables, memory>> /\ at \notin {"none", "intent"}
      BY <1>1, <1>5
    <2> QED
      BY <1>5, <2>1, ForumStays, LeftAlone DEF Before
  <1>6. CASE /\ UNCHANGED strays /\ (\E t \in Fresh : Makes(t))
             /\ Fail /\ UNCHANGED <<life, tables, memory, herd>>
    <2>1. UNCHANGED <<life, tables, memory>>
      BY <1>6
    <2> QED
      BY <1>1, <1>6, <2>1, MadeAndOver
  <1>7. CASE /\ \E step \in {"rejected", "migrated"} : Goto(step, key)
             /\ UNCHANGED <<life, tables, memory, herd, forum>>
    <2>1. /\ topics' = topics /\ pending' = pending /\ disk' = disk /\ up' = up /\ agents' = agents
          /\ key' = key /\ phase' = phase /\ left' = left /\ UNCHANGED <<tg, home, strays>>
          /\ at' \in {"rejected", "migrated"} /\ UNCHANGED forum
      BY <1>7 DEF life, tables, memory, forum, Goto
    <2>2. StepOK'
      BY <1>1, <2>1 DEF Before, IInv, StepOK, StepsOnAgents, StepsOnTopics, Asking
    <2>3. DiskOK' /\ OneEntryPerTopic' /\ Lets
      BY <1>1, <2>1, FileStays DEF Before, IInv, DiskOK, OneEntryPerTopic
    <2>4. NoLostTopic' /\ OneUnknownTopic'
      BY <2>1, FileStays, ForumStays, ForumSurvives DEF Before
    <2>5. ForumOK'
      BY <1>1, <2>1 DEF Before, IInv, ForumOK, Exists, Known
    <2> QED
      BY <2>2, <2>3, <2>4, <2>5 DEF Good, IInv
  <1> QED
    BY <1>2, <1>3, <1>4, <1>5, <1>6, <1>7 DEF Creating

LEMMA CreateRepeatedGood == Before /\ CreateRepeated => Good
  <1> SUFFICES ASSUME Before, CreateRepeated PROVE Good
    OBVIOUS
  <1>1. PICK t \in Fresh : Makes(t) /\ strays' = strays \cup {t}
    BY DEF CreateRepeated
  <1>2. at = "creating"
    BY DEF CreateRepeated
  <1>3. /\ topics' = topics /\ pending' = pending /\ disk' = disk /\ up' = up /\ agents' = agents
        /\ key' = key /\ phase' = phase /\ left' = left /\ at' = at
    BY DEF CreateRepeated, life, tables, memory, work
  <1>4. StepOK'
    BY <1>2, <1>3 DEF Before, IInv, StepOK, StepsOnAgents, StepsOnTopics, Asking
  <1>5. DiskOK' /\ OneEntryPerTopic' /\ Lets
    BY <1>2, <1>3, FileStays DEF Before, IInv, DiskOK, OneEntryPerTopic
  <1>6. /\ \A u \in Thread : u # t => tg'[u] = tg[u] /\ home'[u] = home[u]
        /\ NoLostTopic' /\ OneUnknownTopic'
        /\ \A u \in Linked(disk'.topics) : tg'[u].state # "unused"
    BY <1>1, <1>2, <1>3, Made
  <1>7. ForumOK'
    <2>1. \A u \in Thread : tg'[u].state \in {"open", "closed"} /\ home'[u] = key => Known(u)'
      BY <1>1, <1>2, <1>3, <1>6 DEF Before, IInv, ForumOK, Exists, Known
    <2> QED
      BY <1>2, <1>3, <1>6, <2>1 DEF ForumOK, Exists
  <1> QED
    BY <1>4, <1>5, <1>6, <1>7 DEF Good, IInv

(* The entry takes the topic in as the mark goes.                          *)
LEMMA LinkTopicGood == Before /\ LinkTopic => Good
  <1> SUFFICES ASSUME Before, LinkTopic PROVE Good
    OBVIOUS
  <1>1. Shrinks /\ at = "link" /\ tg' = tg /\ home' = home /\ strays' = strays
    BY ForumStays DEF LinkTopic, forum
  <1>2. CASE SaveFails
    BY <1>1, <1>2, SaveFailed DEF Before
  <1> DEFINE new == Link(topics, Mine(key), made, now)
  <1>3. CASE /\ Saved(new, pending \ {key}) /\ Return
             /\ UNCHANGED <<life, memory, herd>>
    <2>1. /\ topics' = new /\ pending' = pending \ {key} /\ up' = up /\ agents' = agents
          /\ disk' = [topics |-> new, pending |-> pending \ {key}]
          /\ disk'.topics = new /\ disk'.pending = pending \ {key}
      BY <1>3 DEF Saved, life, memory
    <2>2. /\ disk.topics = topics /\ disk.pending = pending /\ key \in Key /\ topics \in Tables
          /\ key \notin Mapped(topics) /\ up /\ key \in KeysOf(agents)
      BY <1>1, EntryHere DEF Before, IInv, DiskOK, StepOK, Asking, StepsOnAgents
    <2>3. /\ made \in Thread /\ made \notin Linked(topics) /\ tg[made].state # "unused"
          /\ home[made] = key
          /\ \A t \in Thread : Exists(t) /\ home[t] = key => Known(t) \/ t = made
      BY <1>1, <2>2 DEF Before, IInv, ForumOK
    <2>4. new[key].thread = made /\ \A l \in Key : l # key => new[l] = topics[l]
      <3>1. Mine(key).key = key
        BY <2>2, MineIsAgent DEF Before, TypeOK, MemoryOK
      <3> QED
        BY <2>2, <3>1 DEF Link, Tables
    <2> HIDE DEF new
    <2>5. made # 0
      BY <2>3 DEF Thread
    <2>6. Mapped(new) = Mapped(topics) \cup {key}
      BY <2>2, <2>4, <2>5 DEF Mapped
    <2>7. \A l \in Mapped(topics) : l # key /\ l \in Key
      BY <2>2 DEF Mapped
    <2>8. Linked(new) = Linked(topics) \cup {made}
      BY <2>4, <2>6, <2>7 DEF Linked
    <2>9. Single(new)
      <3>1. Single(topics) /\ \A l \in Mapped(topics) : topics[l].thread # made
        BY <2>3 DEF Before, IInv, OneEntryPerTopic, Linked
      <3> QED
        BY <2>4, <2>6, <2>7, <3>1 DEF Single
    <2>10. StepOK' /\ at' = "none"
      BY <1>3, <2>1, <2>2, ReturnRests, Rested DEF Before
    <2>11. DiskOK' /\ OneEntryPerTopic' /\ Lets
      BY <2>1, <2>2, <2>8, <2>9 DEF DiskOK, OneEntryPerTopic, Lets
    <2>12. ForumOK'
      BY <1>1, <2>1, <2>2, <2>3, <2>8, <2>10 DEF Before, IInv, ForumOK
    <2>13. NoLostTopic'
      <3> SUFFICES ASSUME NEW t \in Thread, Exists(t)
                   PROVE  t \in Linked(new) \/ home[t] \in pending \ {key} \/ t \in strays
        BY <1>1, <2>1 DEF NoLostTopic, Exists
      <3>1. CASE home[t] = key
        BY <2>2, <2>3, <2>8, <3>1 DEF Known
      <3>2. CASE home[t] # key
        BY <2>2, <2>8, <3>2 DEF Before, IInv, NoLostTopic
      <3> QED
        BY <3>1, <3>2
    <2>14. OneUnknownTopic'
      BY <1>1, <2>1, <2>2, <2>8 DEF Before, IInv, OneUnknownTopic, Exists
    <2> QED
      BY <2>10, <2>11, <2>12, <2>13, <2>14 DEF Good, IInv
  <1> QED
    BY <1>2, <1>3 DEF LinkTopic

(* Telegram has refused the creation: the mark goes, no topic is unknown.  *)
LEMMA ClearIntentGood == Before /\ ClearIntent => Good
  <1> SUFFICES ASSUME Before, ClearIntent PROVE Good
    OBVIOUS
  <1>1. /\ Shrinks /\ at \in {"rejected", "migrated"}
        /\ tg' = tg /\ home' = home /\ strays' = strays
    BY ForumStays DEF ClearIntent, forum
  <1>2. CASE SaveFails
    BY <1>1, <1>2, SaveFailed DEF Before
  <1>3. CASE \/ Down("forbidden", [topics |-> topics, pending |-> pending \ {key}])
             \/ Saved(topics, pending \ {key}) /\ Fail /\ UNCHANGED <<life, memory, herd>>
    <2>1. /\ disk.topics = topics /\ disk.pending = pending /\ up
          /\ \A t \in Thread : Exists(t) /\ home[t] = key => Known(t)
      BY <1>1 DEF Before, IInv, DiskOK, StepOK, ForumOK
    <2>2. /\ topics' = topics /\ pending' = pending \ {key}
          /\ disk' = [topics |-> topics, pending |-> pending \ {key}]
          /\ disk'.topics = topics /\ disk'.pending = pending \ {key}
      BY <1>3 DEF Saved, Down
    <2>3. StepOK' /\ at' = "none"
      <3>1. CASE Down("forbidden", [topics |-> topics, pending |-> pending \ {key}])
        BY <3>1 DEF Down, StepOK, StepsOnAgents, StepsOnTopics, Asking
      <3>2. CASE Fail /\ UNCHANGED <<life, memory, herd>>
        BY <2>1, <3>2, ReturnRests, Rested DEF Before, life, memory
      <3> QED
        BY <1>3, <3>1, <3>2
    <2>4. DiskOK' /\ OneEntryPerTopic' /\ Lets
      BY <2>1, <2>2 DEF DiskOK, Before, IInv, OneEntryPerTopic, Lets
    <2>5. ForumOK'
      BY <1>1, <2>1, <2>2, <2>3 DEF Before, IInv, ForumOK
    <2>6. NoLostTopic'
      BY <1>1, <2>1, <2>2 DEF Before, IInv, NoLostTopic, Exists, Known
    <2>7. OneUnknownTopic'
      BY <1>1, <2>1, <2>2 DEF Before, IInv, OneUnknownTopic, Exists
    <2> QED
      BY <2>3, <2>4, <2>5, <2>6, <2>7 DEF Good, IInv
  <1> QED
    BY <1>2, <1>3 DEF ClearIntent

(* Inside an operation on a topic its key has an entry, and the file       *)
(* agrees with the memory.                                                 *)
LEMMA OnTopic ==
  ASSUME Before, at \in StepsOnTopics
  PROVE  /\ at \notin {"none", "intent"} /\ key \in Mapped(topics)
         /\ TypeOK /\ IInv
         /\ topics[key] \in Entry /\ topics[key].thread \in Thread
  <1>1. TypeOK /\ IInv /\ topics[key] \in Entry /\ key \in Mapped(topics)
    BY EntryHere DEF Before, IInv, StepOK
  <1>2. topics[key].thread \in Thread
    BY <1>1, EntryHere, LinkedInThread DEF Linked
  <1> QED
    BY <1>1, <1>2 DEF StepsOnTopics

LEMMA OnAgent ==
  ASSUME Before, at \in StepsOnAgents
  PROVE  key \in KeysOf(agents) /\ Mine(key) \in Agent
  BY MineTyped DEF Before, IInv, StepOK

LEMMA ReviveGood == Before /\ Revive => Good
  <1> SUFFICES ASSUME Before, Revive PROVE Good
    OBVIOUS
  <1>1. at \in StepsOnTopics /\ at \in StepsOnAgents
    BY DEF Revive, StepsOnTopics, StepsOnAgents
  <1>2. /\ at \notin {"none", "intent"} /\ key \in Mapped(topics) /\ TypeOK /\ IInv
        /\ key \in KeysOf(agents)
    BY <1>1, OnTopic, OnAgent
  <1>3. {"reopening", "reopened"} \cap (Asked \cup {"deleted"}) = {}
    BY DEF Asked
  <1> QED
    BY <1>2, <1>3, Quits, Proceeds DEF Revive

(* A topic found deleted during a revival is forgotten and made anew.      *)
LEMMA ReopeningGood == Before /\ Reopening => Good
  <1> SUFFICES ASSUME Before, Reopening PROVE Good
    OBVIOUS
  <1>1. /\ at \notin {"none", "intent"} /\ key \in Mapped(topics) /\ TypeOK /\ IInv
        /\ key \in KeysOf(agents)
    BY OnTopic, OnAgent DEF Reopening, StepsOnTopics, StepsOnAgents
  <1> DEFINE t == topics[key].thread
             v == [tg[t] EXCEPT !.state = "open"]
  <1>2. v.state = "open"
    BY <1>1, OnTopic DEF Reopening, StepsOnTopics, TypeOK, ForumTyped, TopicState
  <1> HIDE DEF v
  <1>3. CASE Succeeds(t, v) /\ Goto("reopened", key) /\ UNCHANGED <<life, tables, memory, herd>>
    <2>1. Shrinks
      BY <1>1, <1>2, <1>3, CallMoves DEF Succeeds
    <2>2. UNCHANGED <<life, tables, memory>>
      BY <1>3
    <2> QED
      BY <1>1, <1>3, <2>1, <2>2, Goes DEF Asked
  <1>4. CASE /\ Gone(t) /\ UNCHANGED forum
             /\ topics' = Forget(topics, key) /\ UNCHANGED <<pending, dirty, disk>>
             /\ Goto("intent", key) /\ UNCHANGED <<life, memory, herd>>
    <2>1. Shrinks /\ tg' = tg
      BY <1>4, ForumStays DEF forum
    <2>2. /\ up' = up /\ agents' = agents /\ pending' = pending /\ disk' = disk
          /\ at' = "intent" /\ key' = key /\ phase' = phase /\ left' = left
      BY <1>4 DEF life, memory, Goto
    <2>3. key \in Key /\ topics \in Tables
      BY <1>1, EntryHere
    <2>4. Single(topics') /\ Single(disk'.topics) /\ Mapped(topics') = Mapped(topics) \ {key}
      BY <1>1, <1>4, <2>2, <2>3, ForgetLinked DEF IInv, OneEntryPerTopic
    <2>5. StepOK'
      BY <1>1, <2>2, <2>4 DEF IInv, StepOK, Asking, StepsOnAgents, StepsOnTopics
    <2>6. DiskOK'
      BY <1>1, <1>4, <2>1, <2>2 DEF IInv, DiskOK, Mapped, Gone
    <2> QED
      BY <1>1, <2>1, <2>2, <2>4, <2>5, <2>6, FileStays, Calm DEF Asked
  <1>5. CASE FailPolicy(t, v)
    BY <1>1, <1>2, <1>5, Failed
  <1> QED
    BY <1>3, <1>4, <1>5 DEF Reopening, v

LEMMA ReopenedGood == Before /\ Reopened => Good
  <1> SUFFICES ASSUME Before, Reopened PROVE Good
    OBVIOUS
  <1>1. /\ at \notin {"none", "intent"} /\ key \in Mapped(topics) /\ TypeOK /\ IInv
        /\ key \in KeysOf(agents) /\ topics[key] \in Entry
    BY OnTopic, OnAgent DEF Reopened, StepsOnTopics, StepsOnAgents
  <1> DEFINE e == [topics[key] EXCEPT !.closed = FALSE]
  <1>2. e \in Entry /\ e.thread = topics[key].thread
    BY <1>1 DEF Entry
  <1>3. Recorded(e, "refreshing")
    BY DEF Reopened
  <1> HIDE DEF e
  <1> QED
    BY <1>1, <1>2, <1>3, RecordSaved

LEMMA RefreshingGood == Before /\ Refreshing => Good
  <1> SUFFICES ASSUME Before, Refreshing PROVE Good
    OBVIOUS
  <1>1. /\ at \notin {"none", "intent"} /\ key \in Mapped(topics) /\ TypeOK /\ IInv
        /\ key \in KeysOf(agents) /\ Mine(key) \in Agent
    BY OnTopic, OnAgent DEF Refreshing, StepsOnTopics, StepsOnAgents
  <1> DEFINE t == topics[key].thread
             v == Shown(t, Mine(key), {"status"} \cup Moved(topics[key], Mine(key)))
  <1>2. t \in Thread
    BY OnTopic DEF Refreshing, StepsOnTopics
  <1>3. v.state = tg[t].state /\ tg[t].state \in {"unused", "open", "closed", "deleted"}
    BY <1>1, <1>2 DEF Shown, TypeOK, ForumTyped, TopicState
  <1> HIDE DEF v
  <1>4. CASE Succeeds(t, v) /\ Goto("refreshed", key) /\ UNCHANGED <<life, tables, memory, herd>>
    <2>1. Shrinks
      BY <1>1, <1>3, <1>4, CallMoves DEF Succeeds, Exists
    <2>2. UNCHANGED <<life, tables, memory>>
      BY <1>4
    <2> QED
      BY <1>1, <1>4, <2>1, <2>2, Goes DEF Asked
  <1>5. CASE /\ Gone(t) /\ UNCHANGED forum
             /\ Saved(Forget(topics, key), pending) /\ Goto("intent", key)
             /\ UNCHANGED <<life, memory, herd>>
    <2> DEFINE new == Forget(topics, key)
    <2>1. Shrinks
      BY <1>5, ForumStays
    <2>2. /\ up' = up /\ agents' = agents /\ topics' = new /\ pending' = pending
          /\ disk' = [topics |-> new, pending |-> pending]
          /\ disk'.topics = new /\ disk'.pending = pending
          /\ at' = "intent" /\ key' = key /\ phase' = phase /\ left' = left
      BY <1>5 DEF life, memory, Saved, Goto
    <2>3. key \in Key /\ topics \in Tables /\ pending \in SUBSET Key /\ new \in Tables
      BY <1>1, EntryHere, ForgetInTables
    <2>4. /\ disk.topics = topics /\ disk.pending = pending /\ Single(topics)
      BY <1>1 DEF IInv, DiskOK, OneEntryPerTopic
    <2>5. /\ Linked(new) \subseteq Linked(topics) /\ Single(new) /\ Mapped(new) = Mapped(topics) \ {key}
          /\ \A u \in Linked(topics) \ Linked(new) : Gone(u)
      BY <1>5, <2>3, <2>4, ForgetLinked
    <2> HIDE DEF new
    <2>6. StepOK'
      BY <1>1, <2>2, <2>5 DEF IInv, StepOK, Asking, StepsOnAgents, StepsOnTopics
    <2>7. DiskOK'
      BY <2>2 DEF DiskOK
    <2>8. disk' \in Records /\ Lets
      BY <2>2, <2>3, <2>4, <2>5 DEF Records, Lets
    <2> QED
      BY <1>1, <2>1, <2>2, <2>4, <2>5, <2>6, <2>7, <2>8, Calm DEF Asked
  <1>6. CASE UNCHANGED forum /\ SaveFails
    BY <1>1, <1>6, ForumStays, SaveFailed
  <1>7. CASE ~Gone(t) /\ FailPolicy(t, v)
    <2>1. CASE Exists(t)
      BY <1>1, <1>3, <1>7, <2>1, Failed DEF Exists
    <2>2. CASE ~Exists(t)
      <3>1. v.state = "unused"
        BY <1>2, <1>3, <1>7, <2>2 DEF Exists, Gone, TopicState, TypeOK, ForumTyped
      <3>2. t \in Linked(disk.topics)
        BY <1>1 DEF IInv, DiskOK, Linked
      <3> QED
        BY <1>1, <1>3, <3>1, <3>2 DEF IInv, ForumOK
    <2> QED
      BY <2>1, <2>2
  <1> QED
    BY <1>4, <1>5, <1>6, <1>7 DEF Refreshing, v

(* A call on the topic of an entry is about a topic there is, or was.      *)
LEMMA TopicOfEntry ==
  ASSUME Before, at \in StepsOnTopics
  PROVE  tg[topics[key].thread].state \in {"open", "closed", "deleted"}
  <1>1. topics[key].thread \in Thread /\ key \in Mapped(topics) /\ at \notin {"none", "intent"}
    BY OnTopic
  <1>2. topics[key].thread \in Linked(disk.topics)
    BY <1>1 DEF Before, IInv, DiskOK, Linked
  <1> QED
    BY <1>1, <1>2 DEF Before, IInv, ForumOK, TypeOK, ForumTyped, TopicState

LEMMA RefreshedGood == Before /\ (Refreshed \/ Edited) => Good
  <1> SUFFICES ASSUME Before, Refreshed \/ Edited PROVE Good
    OBVIOUS
  <1>1. /\ at \notin {"none", "intent"} /\ key \in Mapped(topics) /\ TypeOK /\ IInv
        /\ topics[key] \in Entry /\ Mine(key) \in Agent
    BY OnTopic, OnAgent DEF Refreshed, Edited, StepsOnTopics, StepsOnAgents
  <1> DEFINE e == [topics[key] EXCEPT !.name = Mine(key).name, !.status = Mine(key).status]
  <1>2. e \in Entry /\ e.thread = topics[key].thread
    BY <1>1 DEF Entry, Agent
  <1>3. Recorded(e, "none")
    BY DEF Refreshed, Edited
  <1> HIDE DEF e
  <1> QED
    BY <1>1, <1>2, <1>3, RecordSaved

LEMMA EditGood == Before /\ Edit => Good
  <1> SUFFICES ASSUME Before, Edit PROVE Good
    OBVIOUS
  <1>1. at \notin {"none", "intent"} /\ TypeOK /\ IInv
    BY DEF Edit, Before
  <1>2. CASE key \in KeysOf(agents) /\ key \notin Mapped(topics) /\ Proceed("create")
    BY <1>1, <1>2, Proceeds DEF Asked, StepsOnTopics
  <1>3. CASE key \in KeysOf(agents) /\ EditDue /\ Proceed("editing")
    BY <1>1, <1>3, Proceeds DEF Asked, EditDue
  <1>4. CASE Quit
    BY <1>1, <1>4, Quits
  <1> QED
    BY <1>2, <1>3, <1>4 DEF Edit

LEMMA EditingGood == Before /\ Editing => Good
  <1> SUFFICES ASSUME Before, Editing PROVE Good
    OBVIOUS
  <1> DEFINE t == topics[key].thread
             v == Shown(t, Mine(key), IF Forced THEN {"name", "status"}
                                      ELSE Moved(topics[key], Mine(key)))
  <1>1. /\ at \notin {"none", "intent"} /\ key \in Mapped(topics) /\ TypeOK /\ IInv
        /\ key \in KeysOf(agents) /\ Mine(key) \in Agent /\ t \in Thread
        /\ tg[t].state \in {"open", "closed", "deleted"}
    BY OnTopic, OnAgent, TopicOfEntry DEF Editing, StepsOnTopics, StepsOnAgents
  <1>2. v.state \in {"open", "closed", "deleted"}
    BY <1>1 DEF Shown, TypeOK, ForumTyped, TopicState
  <1>3. Answered(t, v, "edited")
    BY DEF Editing
  <1> HIDE DEF v
  <1> QED
    BY <1>1, <1>2, <1>3, Answers

LEMMA ExitGood == Before /\ (Exit \/ Finish \/ Close) => Good
  <1> SUFFICES ASSUME Before, Exit \/ Finish \/ Close PROVE Good
    OBVIOUS
  <1>1. at \notin {"none", "intent"} /\ TypeOK /\ IInv
    BY DEF Exit, Finish, Close, Before
  <1>2. CASE Quit
    BY <1>1, <1>2, Quits
  <1>3. CASE key \in Mapped(topics) /\ \E step \in {"exiting", "closing", "close"} : Proceed(step)
    <2>1. {"exiting", "closing", "close"} \cap (Asked \cup {"deleted"} \cup StepsOnAgents) = {}
      BY DEF Asked, StepsOnAgents
    <2> QED
      BY <1>1, <1>3, <2>1, Proceeds
  <1>4. CASE key \in Mapped(topics) /\ Recorded([topics[key] EXCEPT !.status = Exited, !.closed = TRUE], "none")
    <2> DEFINE e == [topics[key] EXCEPT !.status = Exited, !.closed = TRUE]
    <2>1. e \in Entry /\ e.thread = topics[key].thread
      BY <1>1, EntryHere DEF Entry
    <2>2. Recorded(e, "none")
      BY <1>4
    <2> HIDE DEF e
    <2> QED
      BY <1>1, <1>4, <2>1, <2>2, RecordSaved
  <1> QED
    BY <1>2, <1>3, <1>4 DEF Exit, Finish, Close

LEMMA ExitingGood == Before /\ Exiting => Good
  <1> SUFFICES ASSUME Before, Exiting PROVE Good
    OBVIOUS
  <1> DEFINE t == topics[key].thread
             v == [tg[t] EXCEPT !.status = Exited]
  <1>1. /\ at \notin {"none", "intent"} /\ key \in Mapped(topics) /\ TypeOK /\ IInv
        /\ t \in Thread /\ tg[t].state \in {"open", "closed", "deleted"}
    BY OnTopic, TopicOfEntry DEF Exiting, StepsOnTopics
  <1>2. v.state \in {"open", "closed", "deleted"}
    BY <1>1 DEF TypeOK, ForumTyped, TopicState
  <1>3. Answered(t, v, "exited")
    BY DEF Exiting
  <1> HIDE DEF v
  <1> QED
    BY <1>1, <1>2, <1>3, Answers

LEMMA ClosingGood == Before /\ Closing => Good
  <1> SUFFICES ASSUME Before, Closing PROVE Good
    OBVIOUS
  <1> DEFINE t == topics[key].thread
             v == [tg[t] EXCEPT !.state = "closed"]
  <1>1. /\ at \notin {"none", "intent"} /\ key \in Mapped(topics) /\ TypeOK /\ IInv
        /\ t \in Thread
    BY OnTopic DEF Closing, StepsOnTopics
  <1>2. v.state \in {"open", "closed", "deleted"}
    BY <1>1 DEF TypeOK, ForumTyped, TopicState
  <1>3. Answered(t, v, "closed")
    BY DEF Closing
  <1> HIDE DEF v
  <1> QED
    BY <1>1, <1>2, <1>3, Answers

LEMMA ExitRecordedGood == Before /\ (ExitRecorded \/ Closed) => Good
  <1> SUFFICES ASSUME Before, ExitRecorded \/ Closed PROVE Good
    OBVIOUS
  <1>1. /\ at \notin {"none", "intent"} /\ key \in Mapped(topics) /\ TypeOK /\ IInv
        /\ topics[key] \in Entry
    BY OnTopic DEF ExitRecorded, Closed, StepsOnTopics
  <1>2. \E e \in Entry, next \in {"none", "close"} : e.thread = topics[key].thread /\ Recorded(e, next)
    <2>1. /\ [topics[key] EXCEPT !.status = Exited] \in Entry
          /\ [topics[key] EXCEPT !.status = Exited].thread = topics[key].thread
          /\ [topics[key] EXCEPT !.closed = TRUE] \in Entry
          /\ [topics[key] EXCEPT !.closed = TRUE].thread = topics[key].thread
      BY <1>1 DEF Entry
    <2> QED
      BY <2>1 DEF ExitRecorded, Closed
  <1> QED
    BY <1>1, <1>2, RecordSaved

LEMMA DeletingGood == Before /\ Deleting => Good
  <1> SUFFICES ASSUME Before, Deleting PROVE Good
    OBVIOUS
  <1> DEFINE t == topics[key].thread
             v == [tg[t] EXCEPT !.state = "deleted"]
  <1>1. /\ at \notin {"none", "intent"} /\ key \in Mapped(topics) /\ TypeOK /\ IInv
        /\ t \in Thread
    BY OnTopic DEF Deleting, StepsOnTopics
  <1>2. v.state = "deleted"
    BY <1>1 DEF TypeOK, ForumTyped, TopicState
  <1>3. UNCHANGED <<life, tables, memory>>
    BY DEF Deleting
  <1>4. Succeeds(t, v) => tg'[t].state = "deleted"
    BY <1>1, <1>2 DEF Succeeds, Effect, TypeOK, ForumTyped
  <1> HIDE DEF v
  <1>5. Shrinks
    <2>1. UNCHANGED forum \/ (Exists(t) /\ Effect(t, v))
      BY DEF Deleting, Succeeds, Skipped, MaybeEffect, Forbidden, v
    <2> QED
      BY <1>1, <1>2, <2>1, CallMoves
  <1>6. CASE Goto("deleted", key) /\ tg'[t].state = "deleted"
    BY <1>1, <1>3, <1>5, <1>6, Goes DEF Asked, StepsOnAgents
  <1>7. CASE Return
    BY <1>1, <1>3, <1>5, <1>7, LeftAlone
  <1>8. CASE Over("idle", {})
    <2>1. Fail \/ Over("idle", {})
      BY <1>8
    <2>2. /\ at' = "none" /\ phase' = "idle" /\ up /\ up' = up /\ agents' = agents
          /\ topics' = topics /\ pending' = pending /\ disk' = disk
      BY <1>1, <1>3, <1>8 DEF Over, IInv, StepOK, life, tables, memory
    <2>3. StepOK'
      BY <1>1, <2>2, Rested
    <2>4. DiskOK' /\ Single(topics') /\ Single(disk'.topics)
      BY <1>1, <2>2 DEF IInv, DiskOK, OneEntryPerTopic
    <2> QED
      BY <1>1, <1>5, <2>2, <2>3, <2>4, FileStays, Calm DEF Asked
  <1>9. Gone(t) /\ UNCHANGED forum => tg'[t].state = "deleted"
    BY DEF Gone, forum
  <1> QED
    BY <1>4, <1>6, <1>7, <1>8, <1>9 DEF Deleting, v

LEMMA DeletedGood == Before /\ Deleted => Good
  <1> SUFFICES ASSUME Before, Deleted PROVE Good
    OBVIOUS
  <1>1. /\ at \notin {"none", "intent"} /\ TypeOK /\ IInv /\ Gone(topics[key].thread) /\ Shrinks
    BY ForumStays DEF Deleted, Before, IInv, StepOK
  <1>2. CASE SaveFails
    BY <1>1, <1>2, SaveFailed
  <1>3. CASE Saved(Forget(topics, key), pending) /\ Return /\ UNCHANGED <<life, memory, herd>>
    <2>1. UNCHANGED <<life, memory>>
      BY <1>3
    <2> QED
      BY <1>1, <1>3, <2>1, Forgotten
  <1> QED
    BY <1>2, <1>3 DEF Deleted

LEMMA OperationGood == Before /\ Operation => Good
  BY CreateGood, IntentGood, CreatingGood, CreateRepeatedGood, LinkTopicGood, ClearIntentGood,
     ReviveGood, ReopeningGood, ReopenedGood, RefreshingGood, RefreshedGood, EditGood, EditingGood,
     ExitGood, ExitingGood, ExitRecordedGood, ClosingGood, DeletingGood, DeletedGood DEF Operation

---------------------------------------------------------------------------
(* The loops.  Between operations the file agrees with the memory, so a    *)
(* pass may store a new table of the same topics.                          *)

LEMMA BetweenOperations ==
  ASSUME Before, at = "none"
  PROVE  /\ TypeOK /\ IInv /\ disk.topics = topics /\ disk.pending = pending
         /\ topics \in Tables /\ pending \in SUBSET Key /\ disk \in Records
         /\ Single(topics) /\ topics \in [Key -> Entry]
  BY EntryHere, TablesAreTables DEF Before, IInv, DiskOK, OneEntryPerTopic

LEMMA SavedBetween ==
  ASSUME Before, at = "none", Shrinks, at' \notin Asked \cup {"intent"}, StepOK',
         NEW new \in Tables, Linked(new) = Linked(topics), Single(new),
         \/ Saved(new, pending)
         \/ new = topics /\ UNCHANGED tables
  PROVE  Good
  <1>1. /\ TypeOK /\ IInv /\ disk.topics = topics /\ disk.pending = pending
        /\ pending \in SUBSET Key
    BY BetweenOperations
  <1>2. /\ topics' = new /\ pending' = pending /\ disk'.topics = new /\ disk'.pending = pending
    BY <1>1 DEF Saved, tables
  <1>3. disk' \in Records
    BY <1>1, EntryHere DEF Saved, tables, Records
  <1>4. DiskOK' /\ Lets
    BY <1>1, <1>2 DEF DiskOK, Lets
  <1> QED
    BY <1>1, <1>2, <1>3, <1>4, Calm

LEMMA ContinuedGood ==
  ASSUME Before, at = "none", NEW L \in SUBSET Agent, Distinct(L)
  PROVE  /\ Continued(topics, L) \in Tables /\ Single(Continued(topics, L))
         /\ Linked(Continued(topics, L)) = Linked(topics)
  BY BetweenOperations, ContinuedInTables, ContinuedKeepsSingle, ContinuedKeepsTopics

LEMMA HandleEventGood == Before /\ HandleEvent => Good
  <1> SUFFICES ASSUME Before, HandleEvent PROVE Good
    OBVIOUS
  <1> DEFINE ev == Head(batch)
             k == ev.agent.key
             new == IF ev.kind = "gone" THEN topics ELSE Continued(topics, {ev.agent})
             away == IF ev.kind = "gone" THEN {k} ELSE Left({ev.agent})
             quiet == ev.kind = "changed" /\ k \in Mapped(new) /\ Live(new[k])
             stay == {a \in agents : a.key \notin away}
  <1>1. at = "none" /\ up /\ phase \in {"one", "events"} /\ UNCHANGED forum /\ TypeOK /\ IInv
    BY DEF HandleEvent, Before
  <1>2. ev \in Event
    BY HeadTailProperties DEF HandleEvent, Before, TypeOK, WorkOK
  <1> HIDE DEF ev
  <1>3. ev.agent \in Agent
    BY <1>2 DEF Event
  <1>4. new \in Tables /\ Single(new) /\ Linked(new) = Linked(topics)
    BY <1>1, <1>3, BetweenOperations, ContinuedGood, OneAgentTyped
  <1>5. CASE SaveFails
    BY <1>1, <1>5, ForumStays, SaveFailed
  <1>6. CASE /\ IF dirty \/ new # topics THEN Saved(new, pending) ELSE UNCHANGED tables
             /\ agents' = IF ev.kind = "gone" THEN stay ELSE Put(stay, ev.agent)
             /\ at' = IF quiet THEN "none"
                      ELSE IF ev.kind = "gone" THEN "exit"
                      ELSE IF k \in Mapped(new) /\ Live(new[k]) THEN "edit" ELSE "create"
             /\ key' = IF quiet THEN AnyKey ELSE k
             /\ phase' = IF quiet /\ phase = "one" THEN "idle" ELSE phase
             /\ UNCHANGED <<made, left, force, due, rightsLost, life, herd>>
    <2>1. topics' = new /\ up' = up
      BY <1>6 DEF Saved, tables, life
    <2>2. at' \in {"none", "exit", "edit", "create"}
      BY <1>6
    <2>3. at' = "create" => /\ key' \in KeysOf(agents')
                            /\ key' \notin Mapped(topics') \/ ~Live(topics'[key'])
      <3>1. at' = "create" => ~quiet /\ ev.kind # "gone" /\ ~(k \in Mapped(new) /\ Live(new[k]))
        BY <1>6
      <3> HIDE DEF new, quiet
      <3>2. at' = "create" => key' = k
        BY <1>6, <3>1
      <3>3. at' = "create" => ev.agent \in agents'
        BY <1>6, <3>1 DEF Put
      <3>4. at' = "create" => k \in KeysOf(agents')
        BY <3>3 DEF KeysOf
      <3>5. at' = "create" => k \notin Mapped(new) \/ ~Live(new[k])
        BY <3>1
      <3> QED
        BY <2>1, <3>2, <3>4, <3>5
    <2>4. phase' \in {"one", "events", "idle"} /\ (phase' = "idle" => at' = "none")
      BY <1>1, <1>6
    <2>5. StepOK'
      BY <1>1, <2>1, <2>2, <2>3, <2>4 DEF StepOK, StepsOnAgents, StepsOnTopics, Asking
    <2>6. at' \notin Asked \cup {"intent"}
      BY <2>2 DEF Asked
    <2> HIDE DEF new
    <2> QED
      BY <1>1, <1>4, <1>6, <2>5, <2>6, ForumStays, SavedBetween
  <1> QED
    BY <1>5, <1>6 DEF HandleEvent, ev

LEMMA PassStartsGood == Before /\ PassStarts => Good
  <1> SUFFICES ASSUME Before, PassStarts PROVE Good
    OBVIOUS
  <1> DEFINE once == DedupeThreads(topics)
             new == Continued(once, registry)
  <1>1. at = "none" /\ up /\ UNCHANGED forum /\ TypeOK /\ IInv
    BY DEF PassStarts, InLoop, Before
  <1>2. once = topics /\ topics \in Tables /\ Single(topics)
    BY <1>1, BetweenOperations, SingleIsDeduped
  <1>3. new \in Tables /\ Single(new) /\ Linked(new) = Linked(topics)
    BY <1>1, <1>2, ContinuedGood, WorldTyped DEF TypeOK, HerdOK
  <1> HIDE DEF new
  <1>4. CASE SaveFails
    BY <1>1, <1>4, ForumStays, SaveFailed
  <1>5. CASE /\ IF dirty THEN Saved(topics, pending) ELSE UNCHANGED tables
             /\ Enter("idle", {}) /\ UNCHANGED <<life, memory, herd>>
    <2>1. at' = "none" /\ up' = up /\ phase' = "idle" /\ agents' = agents
      BY <1>1, <1>5 DEF Enter, life, memory
    <2>2. StepOK'
      BY <1>1, <2>1, Rested
    <2> QED
      BY <1>1, <1>2, <1>5, <2>1, <2>2, ForumStays, SavedBetween DEF Asked
  <1>6. CASE /\ IF dirty \/ new # topics THEN Saved(new, pending) ELSE UNCHANGED tables
             /\ Enter("orphans", Orphans(new, KeysOf(registry)))
             /\ UNCHANGED <<due, rightsLost, life, herd>>
    <2>1. at' = "none" /\ up' = up /\ phase' = "orphans"
      BY <1>1, <1>6 DEF Enter, life
    <2>2. StepOK'
      BY <1>1, <2>1 DEF StepOK, StepsOnAgents, StepsOnTopics, Asking
    <2> QED
      BY <1>1, <1>3, <1>6, <2>1, <2>2, ForumStays, SavedBetween DEF Asked
  <1> QED
    BY <1>4, <1>5, <1>6 DEF PassStarts, once, new

(* A step of a loop, or of the daemon's own, that leaves the tables.       *)
LEMMA LoopGoes ==
  ASSUME Before, at = "none", Shrinks, UNCHANGED tables, StepOK',
         at' \notin Asked \cup {"intent"}
  PROVE  Good
  <1>1. topics \in Tables /\ Single(topics)
    BY BetweenOperations
  <1> QED
    BY <1>1, SavedBetween

LEMMA NextInLoopGood == Before /\ NextInLoop => Good
  <1> SUFFICES ASSUME Before, NextInLoop PROVE Good
    OBVIOUS
  <1>1. /\ at = "none" /\ UNCHANGED forum /\ UNCHANGED tables /\ up /\ up' = up
        /\ phase' = phase /\ phase # "idle" /\ agents' = agents /\ topics' = topics
    BY DEF NextInLoop, life, tables
  <1>2. PICK k \in left :
          /\ left' = left \ {k} /\ key' = k
          /\ at' \in {"exit", "close", "deleting", "none", "edit", "create"}
          /\ at' = "deleting" => k \in Mapped(topics)
          /\ at' = "create" => phase = "live" /\ ~(k \in Mapped(topics) /\ Live(topics[k]))
    BY DEF NextInLoop
  <1>3. phase = "live" => left \subseteq KeysOf(agents)
    BY DEF Before, IInv, StepOK
  <1>4. StepOK'
    BY <1>1, <1>2, <1>3 DEF StepOK, StepsOnAgents, StepsOnTopics, Asking
  <1> QED
    BY <1>1, <1>2, <1>4, ForumStays, LoopGoes DEF Asked

LEMMA EntersGood ==
  ASSUME Before, NEW p, NEW keys, up, up' = up, at = "none", Enter(p, keys), UNCHANGED forum,
         UNCHANGED tables, agents' = agents, p = "live" => keys \subseteq KeysOf(agents)
  PROVE  Good
  <1>1. at' = "none" /\ phase' = p /\ left' = keys
    BY DEF Enter
  <1>2. StepOK'
    BY <1>1, Rested DEF Before
  <1> QED
    BY <1>1, <1>2, ForumStays, LoopGoes DEF Asked

LEMMA LoopEndsGood == Before /\ (FlushStarts \/ FlushEnds \/ LoopEnds \/ StopStarts) => Good
  <1> SUFFICES ASSUME Before, FlushStarts \/ FlushEnds \/ LoopEnds \/ StopStarts PROVE Good
    OBVIOUS
  <1>1. at = "none"
    BY DEF FlushStarts, FlushEnds, LoopEnds, StopStarts, InLoop, Idle, Before, IInv, StepOK
  <1>2. up /\ up' = up /\ agents' = agents /\ UNCHANGED forum /\ UNCHANGED tables
    BY DEF FlushStarts, FlushEnds, LoopEnds, StopStarts, InLoop, Idle, life, memory
  <1>3. \/ \E p \in {"flush", "stop"} : Enter(p, deb)
        \/ \E p \in {"reconcile", "idle"} : Enter(p, {})
        \/ Enter("unclosed", Unclosed(topics))
        \/ Enter("live", KeysOf(agents))
    BY DEF FlushStarts, FlushEnds, LoopEnds, StopStarts
  <1> QED
    BY <1>1, <1>2, <1>3, EntersGood

LEMMA StopEndsGood == Before /\ StopEnds => Good
  BY ForumStays, Ended DEF StopEnds, Before

LEMMA LoopGood == Before /\ Loop => Good
  BY HandleEventGood, LoopEndsGood, PassStartsGood, NextInLoopGood, StopEndsGood DEF Loop

---------------------------------------------------------------------------
(* The daemon takes its next piece of work.                                *)

LEMMA IdleRests ==
  ASSUME Before, Idle
  PROVE  at = "none" /\ up /\ TypeOK /\ IInv
  BY DEF Before, Idle, IInv, StepOK

(* A handler of one step, that changes one entry.                          *)
LEMMA EntryGood ==
  ASSUME Before, Idle, Shrinks, NEW k \in Key, NEW e \in Entry,
         e.thread = topics[k].thread, Saved(Touch(k, e), pending), at' \notin Asked \cup {"intent"},
         StepOK'
  PROVE  Good
  <1>1. at = "none" /\ TypeOK /\ IInv
    BY IdleRests
  <1>2. topics[k].thread \in 0..MaxThread /\ topics \in Tables
    BY <1>1, BetweenOperations DEF Tables
  <1> DEFINE new == Touch(k, e)
  <1>3. new \in Tables
    BY <1>1, <1>2, TouchTyped
  <1>4. \A l \in Key : new[l].thread = topics[l].thread
    BY <1>1, TouchThreads
  <1> HIDE DEF new
  <1>5. Linked(new) = Linked(topics) /\ Single(new)
    BY <1>1, <1>4, BetweenOperations, SameThreads
  <1>6. Saved(new, pending)
    BY DEF new
  <1> QED
    BY <1>1, <1>3, <1>5, <1>6, SavedBetween

LEMMA TakeWorkGood == Before /\ (TakeEvent \/ TakeDue \/ SweepStarts) => Good
  <1> SUFFICES ASSUME Before, TakeEvent \/ TakeDue \/ SweepStarts PROVE Good
    OBVIOUS
  <1>1. at = "none" /\ up /\ TypeOK /\ IInv
    BY IdleRests DEF TakeEvent, TakeDue, SweepStarts, Idle
  <1>2. /\ up' = up /\ UNCHANGED forum /\ UNCHANGED tables /\ phase' \in {"one", "sweep"}
        /\ at' \in {"none", "edit"}
    BY <1>1 DEF TakeEvent, TakeDue, SweepStarts, Idle, life
  <1>3. StepOK'
    BY <1>1, <1>2 DEF StepOK, StepsOnAgents, StepsOnTopics, Asking
  <1> QED
    BY <1>1, <1>2, <1>3, ForumStays, LoopGoes DEF Asked

(* An update is taken from the inbox and handled while no operation runs.  *)
LEMMA TookShrinks == Before /\ Took => Shrinks /\ Idle
  BY DEF Took, Shrinks, Exists, Gone

(* Nothing but the inbox changes.                                          *)
LEMMA IgnoredGood ==
  ASSUME Before, Took, UNCHANGED <<life, tables, memory, work, herd>>
  PROVE  Good
  <1>1. /\ UNCHANGED life /\ UNCHANGED tables /\ UNCHANGED memory /\ UNCHANGED work
    OBVIOUS
  <1>2. /\ UNCHANGED <<topics, pending, disk>>
        /\ UNCHANGED <<up, agents, phase, at, key, made, left>>
    BY <1>1 DEF life, tables, memory, work
  <1> QED
    BY <1>2, TookShrinks, Meanwhile DEF Before

LEMMA SavedOnlyGood ==
  ASSUME Before, Took, NEW k \in Key, NEW e \in Entry, e.thread = topics[k].thread,
         SavedOnly(Touch(k, e))
  PROVE  Good
  <1>1. at = "none" /\ up /\ TypeOK /\ IInv /\ Shrinks /\ Idle
    BY TookShrinks, IdleRests
  <1>2. CASE SaveFails
    BY <1>1, <1>2, SaveFailed
  <1>3. CASE Saved(Touch(k, e), pending) /\ UNCHANGED <<life, work, memory, herd>>
    <2>1. UNCHANGED life /\ UNCHANGED work /\ UNCHANGED memory
      BY <1>3
    <2>2. at' = "none" /\ up' = up /\ phase' = phase /\ left' = left /\ agents' = agents
      BY <1>1, <2>1 DEF life, work, memory
    <2>3. StepOK'
      BY <1>1, <2>2, Rested DEF IInv, StepOK
    <2> QED
      BY <1>1, <1>3, <2>2, <2>3, EntryGood DEF Asked
  <1> QED
    BY <1>2, <1>3 DEF SavedOnly

LEMMA OnTopicClosedGood == Before /\ OnTopicClosed => Good
  <1> SUFFICES ASSUME Before, OnTopicClosed PROVE Good
    OBVIOUS
  <1> DEFINE t == Head(inbox).thread
             k == Owner(t)
  <1>1. Took /\ TypeOK /\ OneEntryPerTopic
    BY DEF OnTopicClosed, Before, IInv
  <1>2. CASE UNCHANGED <<life, tables, memory, work, herd>>
    BY <1>1, <1>2, IgnoredGood
  <1>3. CASE /\ Holders(topics, t) # {}
             /\ \/ SavedOnly(Touch(k, [topics[k] EXCEPT !.muted = TRUE]))
                \/ SavedOnly(Touch(k, [topics[k] EXCEPT !.closed = TRUE]))
    <2>1. k \in Key
      BY <1>1, <1>3, OwnerHolds
    <2> HIDE DEF k
    <2>4. topics[k] \in Entry
      BY <1>1, <2>1 DEF TypeOK, TablesOK, Tables
    <2>2. CASE SavedOnly(Touch(k, [topics[k] EXCEPT !.muted = TRUE]))
      <3> DEFINE e == [topics[k] EXCEPT !.muted = TRUE]
      <3>1. e \in Entry /\ e.thread = topics[k].thread
        BY <2>4 DEF Entry
      <3> HIDE DEF e
      <3>2. SavedOnly(Touch(k, e))
        BY <2>2 DEF e
      <3> QED
        BY <1>1, <2>1, <3>1, <3>2, SavedOnlyGood
    <2>3. CASE SavedOnly(Touch(k, [topics[k] EXCEPT !.closed = TRUE]))
      <3> DEFINE e == [topics[k] EXCEPT !.closed = TRUE]
      <3>1. e \in Entry /\ e.thread = topics[k].thread
        BY <2>4 DEF Entry
      <3> HIDE DEF e
      <3>2. SavedOnly(Touch(k, e))
        BY <2>3 DEF e
      <3> QED
        BY <1>1, <2>1, <3>1, <3>2, SavedOnlyGood
    <2> QED
      BY <1>3, <2>2, <2>3
  <1> QED
    BY <1>2, <1>3 DEF OnTopicClosed

LEMMA OnTopicReopenedGood == Before /\ OnTopicReopened => Good
  <1> SUFFICES ASSUME Before, OnTopicReopened PROVE Good
    OBVIOUS
  <1> DEFINE t == Head(inbox).thread
             k == Owner(t)
             e == [topics[k] EXCEPT !.muted = FALSE, !.closed = FALSE]
  <1>1. /\ Took /\ TypeOK /\ OneEntryPerTopic /\ IInv /\ Idle /\ Shrinks /\ up
    BY TookShrinks DEF OnTopicReopened, Before, IInv, Idle
  <1>2. CASE UNCHANGED <<life, tables, memory, work, herd>>
    BY <1>1, <1>2, IgnoredGood
  <1>3. CASE SaveFails
    BY <1>1, <1>3, SaveFailed
  <1>4. CASE /\ Holders(topics, t) # {}
             /\ Saved(Touch(k, e), pending)
             /\ phase' = "one" /\ key' = k
             /\ IF k \in KeysOf(agents)
                  THEN /\ deb' = deb \ {k}
                       /\ at' = IF Live(topics[k]) THEN "edit" ELSE "revive"
                       /\ force' = Live(topics[k])
                  ELSE at' = "finish" /\ UNCHANGED <<deb, force>>
             /\ UNCHANGED <<made, batch, left, agents, due, rightsLost, life, herd>>
    <2>1. k \in Key /\ k \in Mapped(topics)
      BY <1>1, <1>4, OwnerHolds
    <2>2. e \in Entry /\ e.thread = topics[k].thread
      <3> HIDE DEF k
      <3>1. topics[k] \in Entry
        BY <1>1, <2>1 DEF TypeOK, TablesOK, Tables
      <3> QED
        BY <3>1 DEF Entry
    <2>3. k \in Mapped(topics')
      <3>1. \A l \in Key : Touch(k, e)[l].thread = topics[l].thread
        BY <1>1, <2>1, <2>2, TouchThreads
      <3>2. topics' = Touch(k, e)
        BY <1>4 DEF Saved
      <3> QED
        BY <2>1, <3>1, <3>2, SameThreads
    <2>4. /\ at' \in {"edit", "revive", "finish"} /\ (at' # "finish" => k \in KeysOf(agents'))
          /\ up' = up /\ phase' = "one" /\ key' = k
      BY <1>4 DEF life
    <2> HIDE DEF k, e
    <2>5. StepOK'
      BY <1>1, <2>3, <2>4 DEF StepOK, StepsOnAgents, StepsOnTopics, Asking
    <2> QED
      BY <1>1, <1>4, <2>1, <2>2, <2>4, <2>5, EntryGood DEF Asked
  <1> QED
    BY <1>2, <1>3, <1>4 DEF OnTopicReopened

LEMMA OnTopicRenamedGood == Before /\ OnTopicRenamed => Good
  <1> SUFFICES ASSUME Before, OnTopicRenamed PROVE Good
    OBVIOUS
  <1> DEFINE t == Head(inbox).thread
             n == Head(inbox).name
             k == Owner(t)
             e == [topics[k] EXCEPT !.name = n]
  <1>1. /\ Took /\ TypeOK /\ OneEntryPerTopic /\ IInv /\ Idle /\ Shrinks /\ up
        /\ at = "none" /\ phase = "idle"
    BY TookShrinks, IdleRests DEF OnTopicRenamed, Before, IInv, Idle
  <1>2. n \in Name
    <2>1. Head(inbox) \in Update /\ Head(inbox).kind = "renamed"
      BY <1>1, TookTyped DEF OnTopicRenamed
    <2>2. Head(inbox) \in [kind : {"renamed"}, thread : Thread, name : Name]
      BY <2>1 DEF Update
    <2> QED
      BY <2>2
  <1>3. CASE UNCHANGED <<life, tables, memory, work, herd>>
    BY <1>1, <1>3, IgnoredGood
  <1>4. CASE SaveFails
    BY <1>1, <1>4, SaveFailed
  <1>5. CASE Holders(topics, t) # {} /\ Saved(Typed(k, n), pending) /\ UNCHANGED <<life, work>>
    <2>1. k \in Key
      BY <1>1, <1>5, OwnerHolds
    <2>2. e \in Entry /\ e.thread = topics[k].thread
      <3> HIDE DEF k, n
      <3>1. topics[k] \in Entry
        BY <1>1, <2>1 DEF TypeOK, TablesOK, Tables
      <3> QED
        BY <1>2, <3>1 DEF Entry
    <2>6. Saved(Touch(k, e), pending)
      BY <1>5 DEF Typed
    <2>3. UNCHANGED life /\ UNCHANGED work
      BY <1>5
    <2>4. at' = "none" /\ up' = up /\ phase' = "idle"
      BY <1>1, <2>3 DEF life, work
    <2>5. StepOK'
      BY <1>1, <2>4 DEF StepOK, StepsOnAgents, StepsOnTopics, Asking
    <2> HIDE DEF k, e
    <2> QED
      BY <1>1, <2>1, <2>2, <2>4, <2>5, <2>6, EntryGood DEF Asked
  <1> QED
    BY <1>3, <1>4, <1>5 DEF OnTopicRenamed

(* A replay changes where the loop is and nothing it relies on.            *)
LEMMA ReplayGood ==
  ASSUME Before, Idle, Shrinks, up' = up, UNCHANGED tables, agents' = agents,
         at' = at, phase' \in {"idle", "events"}
  PROVE  Good
  <1>1. at = "none" /\ up /\ TypeOK /\ IInv
    BY IdleRests
  <1>2. StepOK'
    BY <1>1, Rested
  <1> QED
    BY <1>1, <1>2, LoopGoes DEF Asked

LEMMA CatchUpGood == Before /\ CatchUp => Good
  <1> SUFFICES ASSUME Before, CatchUp PROVE Good
    OBVIOUS
  <1>1. UNCHANGED life /\ UNCHANGED tables /\ UNCHANGED memory /\ UNCHANGED forum
    BY DEF CatchUp
  <1>2. Idle /\ Shrinks /\ up' = up /\ agents' = agents
    BY <1>1, ForumStays DEF CatchUp, memory, life
  <1>3. at' = at /\ phase' \in {"idle", "events"}
    BY DEF CatchUp, ReplayStarts, work, Idle
  <1> QED
    BY <1>1, <1>2, <1>3, ReplayGood

LEMMA OnRightsChangedGood == Before /\ OnRightsChanged => Good
  <1> SUFFICES ASSUME Before, OnRightsChanged PROVE Good
    OBVIOUS
  <1>1. Took /\ UNCHANGED <<life, tables, agents, deb, due, held, wake, now>>
    BY DEF OnRightsChanged
  <1>2. UNCHANGED life /\ UNCHANGED tables /\ agents' = agents
    BY <1>1
  <1>3. Idle /\ Shrinks /\ up' = up
    BY <1>1, <1>2, TookShrinks DEF life
  <1>4. at' = at /\ phase' \in {"idle", "events"}
    BY <1>3 DEF OnRightsChanged, ReplayStarts, work, Idle
  <1> QED
    BY <1>2, <1>3, <1>4, ReplayGood

LEMMA TakeGood == Before /\ Take => Good
  BY TakeWorkGood, CatchUpGood, OnTopicClosedGood, OnTopicReopenedGood, OnTopicRenamedGood,
     OnRightsChangedGood DEF Take

---------------------------------------------------------------------------
(* The timers, the process and the world.                                  *)

LEMMA StartGood == Before /\ Start => Good
  <1> SUFFICES ASSUME Before, Start PROVE Good
    OBVIOUS
  <1>1. TypeOK /\ IInv /\ at = "none"
    BY DEF Before, Start, IInv, StepOK
  <1>2. /\ UNCHANGED forum /\ UNCHANGED tables /\ up' = TRUE /\ at' = "none"
        /\ phase' \in {"reconcile", "idle"}
    BY <1>1 DEF Start
  <1>3. StepOK'
    BY <1>2 DEF StepOK, StepsOnAgents, StepsOnTopics, Asking
  <1> QED
    BY <1>1, <1>2, <1>3, ForumStays, LoopGoes DEF Asked

LEMMA OperatorShrinks == TypeOK /\ OperatorActs => Shrinks
  <1> SUFFICES ASSUME TypeOK, OperatorActs PROVE Shrinks
    OBVIOUS
  <1>1. home' = home /\ strays' = strays
    BY DEF OperatorActs
  <1>2. PICK t \in Thread :
          /\ Exists(t)
          /\ \/ \E s \in {"open", "closed", "deleted"} :
                  tg' = [tg EXCEPT ![t] = [tg[t] EXCEPT !.state = s]]
             \/ \E n \in Name : tg' = [tg EXCEPT ![t] = [tg[t] EXCEPT !.name = n]]
    BY DEF OperatorActs, Hand, Exists
  <1>3. tg[t] \in TopicState /\ tg[t].state \in {"open", "closed"}
    BY <1>2 DEF TypeOK, ForumTyped, Exists
  <1>4. \A u \in Thread : u # t => tg'[u] = tg[u]
    BY <1>2 DEF TypeOK, ForumTyped
  <1>5. tg'[t].state \in {"open", "closed", "deleted"}
    <2>1. \A s \in {"open", "closed", "deleted"} : [tg[t] EXCEPT !.state = s].state = s
      BY <1>3 DEF TopicState
    <2>2. \A n \in Name : [tg[t] EXCEPT !.name = n].state = tg[t].state
      BY <1>3 DEF TopicState
    <2> QED
      BY <1>2, <1>3, <2>1, <2>2 DEF TypeOK, ForumTyped
  <1> QED
    BY <1>1, <1>3, <1>4, <1>5 DEF Shrinks, Exists, Gone

(* Those that do not touch the loop.                                       *)
LEMMA WorldShrinks ==
  ASSUME TypeOK, ClearDashboard \/ AgentsChange \/ OperatorActs \/ RightChanges
                   \/ HoldChanges \/ AskResync \/ DaysPass \/ TimerFires
  PROVE  /\ Shrinks /\ UNCHANGED <<topics, pending, disk>>
         /\ UNCHANGED <<up, agents, phase, at, key, made, left>>
  <1>1. CASE ClearDashboard
    BY <1>1, ForumStays DEF ClearDashboard, life, memory, work
  <1>2. CASE AgentsChange
    BY <1>2, ForumStays DEF AgentsChange, life, tables, memory, work
  <1>3. CASE OperatorActs
    <2>1. Shrinks
      BY <1>3, OperatorShrinks
    <2>2. UNCHANGED life /\ UNCHANGED tables /\ UNCHANGED memory /\ UNCHANGED work
      BY <1>3 DEF OperatorActs
    <2> QED
      BY <2>1, <2>2 DEF life, tables, memory, work
  <1>4. CASE RightChanges
    BY <1>4 DEF RightChanges, Shrinks, Exists, Gone, life, tables, memory, work
  <1>5. CASE HoldChanges \/ AskResync \/ DaysPass
    <2>1. /\ UNCHANGED life /\ UNCHANGED tables /\ UNCHANGED memory /\ UNCHANGED work
          /\ UNCHANGED forum
      BY <1>5 DEF HoldChanges, AskResync, DaysPass
    <2> QED
      BY <2>1, ForumStays DEF life, tables, memory, work
  <1>6. CASE TimerFires
    BY <1>6, ForumStays DEF TimerFires, life, tables, work
  <1> QED
    BY <1>1, <1>2, <1>3, <1>4, <1>5, <1>6

LEMMA CrashGood == Before /\ Crash => Good
  <1> SUFFICES ASSUME Before, Crash PROVE Good
    OBVIOUS
  <1>1. Shrinks /\ Fatal("crash")
    BY DEF Crash, Shrinks, Exists, Gone
  <1> QED
    BY <1>1, Ended DEF Before

LEMMA WorldGood == Before /\ (World \/ TimerFires) => Good
  <1> SUFFICES ASSUME Before, World \/ TimerFires PROVE Good
    OBVIOUS
  <1>1. CASE Crash \/ StopStarts
    BY <1>1, CrashGood, LoopEndsGood
  <1>2. CASE ~(Crash \/ StopStarts)
    BY <1>2, WorldShrinks, Meanwhile DEF World, Before
  <1> QED
    BY <1>1, <1>2

LEMMA StutterGood == Before /\ UNCHANGED vars => Good
  <1> SUFFICES ASSUME Before, UNCHANGED vars PROVE Good
    OBVIOUS
  <1>1. UNCHANGED life /\ UNCHANGED tables /\ UNCHANGED memory /\ UNCHANGED work /\ UNCHANGED forum
    BY DEF vars
  <1>2. /\ UNCHANGED <<topics, pending, disk>> /\ Shrinks
        /\ UNCHANGED <<up, agents, phase, at, key, made, left>>
    BY <1>1, ForumStays DEF life, tables, memory, work
  <1> QED
    BY <1>2, Meanwhile DEF Before

LEMMA EveryStepGood == Before /\ [Next]_vars => Good
  BY OperationGood, LoopGood, TakeGood, WorldGood, StartGood, StutterGood DEF Next

---------------------------------------------------------------------------
LEMMA InitGood == Init => IInv
  <1> SUFFICES ASSUME Init PROVE IInv
    OBVIOUS
  <1>1. Mapped(topics) = {} /\ disk.topics = topics /\ disk.pending = pending
    BY DEF Init, Mapped, NoEntry
  <1>2. Linked(topics) = {} /\ Single(topics)
    BY <1>1 DEF Linked, Single
  <1>3. \A t \in Thread : ~Exists(t)
    BY DEF Init, Unused, Exists
  <1>4. StepOK /\ DiskOK /\ OneEntryPerTopic
    BY <1>1, <1>2 DEF Init, StepOK, StepsOnAgents, StepsOnTopics, Asking, DiskOK, OneEntryPerTopic
  <1>5. ForumOK /\ NoLostTopic /\ OneUnknownTopic
    BY <1>1, <1>2, <1>3 DEF Init, ForumOK, NoLostTopic, OneUnknownTopic
  <1> QED
    BY <1>4, <1>5 DEF IInv

(* The inductive invariant: every reachable state is typed and satisfies   *)
(* all the parts of IInv.                                                  *)
THEOREM Invariant == Spec => [](TypeOK /\ IInv)
  <1>1. Init => TypeOK /\ IInv
    BY InitTyped, InitGood
  <1>2. TypeOK /\ IInv /\ [Next]_vars => (TypeOK /\ IInv)'
    <2>1. TypeOK /\ IInv => StepOK /\ OneEntryPerTopic
      BY DEF IInv
    <2>2. TypeOK /\ IInv /\ [Next]_vars => TypeOK'
      BY <2>1, StepsAreTyped
    <2>3. TypeOK /\ IInv /\ [Next]_vars => IInv'
      BY EveryStepGood DEF Before, Good
    <2> QED
      BY <2>2, <2>3
  <1> QED
    BY <1>1, <1>2, PTL DEF Spec

(* Every variable keeps its type, whatever fails.                          *)
THEOREM TypeCorrect == Spec => []TypeOK
  BY Invariant, PTL

(* A topic the bot made is linked in the mapping file, or its agent's      *)
(* creation is marked there, or a repeated request made it: after any      *)
(* crash, at any step, under any failure of Telegram or of the disk.       *)
THEOREM NoTopicIsLost == Spec => []NoLostTopic
  <1>1. TypeOK /\ IInv => NoLostTopic
    BY DEF IInv
  <1> QED
    BY <1>1, Invariant, PTL

(* No agent ever has two topics that the mapping file does not know.       *)
THEOREM NoSecondUnknownTopic == Spec => []OneUnknownTopic
  <1>1. TypeOK /\ IInv => OneUnknownTopic
    BY DEF IInv
  <1> QED
    BY <1>1, Invariant, PTL

(* No two agents are linked to one topic, in memory or in the file.        *)
THEOREM TopicsAreNotShared == Spec => []OneEntryPerTopic
  <1>1. TypeOK /\ IInv => OneEntryPerTopic
    BY DEF IInv
  <1> QED
    BY <1>1, Invariant, PTL

(* The loop never runs ahead of its file but to forget a deleted topic.    *)
THEOREM MemoryMatchesFile == Spec => []MemoryIsDurable
  <1>1. TypeOK /\ IInv => MemoryIsDurable
    <2> SUFFICES ASSUME TypeOK, IInv, at # "intent" PROVE disk = [topics |-> topics, pending |-> pending]
      BY DEF MemoryIsDurable
    <2>1. disk \in Records /\ disk.topics = topics /\ disk.pending = pending
      BY EntryHere DEF IInv, DiskOK
    <2> QED
      BY <2>1 DEF Records
  <1> QED
    BY <1>1, Invariant, PTL

(* The file lets go of a topic only after Telegram has said that it is     *)
(* deleted, or has deleted it for the sweep.                               *)
THEOREM OnlyDeletedIsForgotten == Spec => ForgottenIsDeleted
  <1>1. TypeOK /\ IInv /\ [Next]_vars =>
          [\A t \in Linked(disk.topics) \ Linked(disk.topics') : tg[t].state = "deleted"]_vars
    BY EveryStepGood DEF Before, Good, Lets, Gone
  <1> QED
    BY <1>1, Invariant, PTL DEF Spec, ForgottenIsDeleted

---------------------------------------------------------------------------
(* Whose topic a step may make it.  Every step that touches the table      *)
(* leaves each topic it keeps with a holder it came from: the old key, a   *)
(* key whose session does not contradict it, muted as before unless the    *)
(* operator has just reopened the topic.  That a topic has one holder      *)
(* makes of this what NeverInherited and MuteKept say of any two keys.     *)
Lifted(t) == inbox # <<>> /\ Head(inbox) = [kind |-> "reopened", thread |-> t]

Carries(k, l) ==
  /\ topics'[l].thread = topics[k].thread
  /\ ~ConflictsWith(k, l)
  /\ topics[k].muted => topics'[l].muted \/ Lifted(topics[k].thread)

Handed ==
  \A l \in Mapped(topics') :
    topics'[l].thread \notin Linked(topics) \/ \E k \in Mapped(topics) : Carries(k, l)

LEMMA HandedSuffices ==
  ASSUME Before, Handed
  PROVE  /\ \A k \in Mapped(topics), l \in Mapped(topics') :
              topics[k].thread = topics'[l].thread => ~ConflictsWith(k, l)
         /\ \A t \in Linked(topics) \cap Linked(topics') :
              MutedIn(topics, t) => MutedIn(topics', t) \/ Lifted(t)
  <1>1. Single(topics)
    BY DEF Before, IInv, OneEntryPerTopic
  <1>2. ASSUME NEW k \in Mapped(topics), NEW l \in Mapped(topics'),
               topics[k].thread = topics'[l].thread
        PROVE  Carries(k, l)
    <2>1. topics'[l].thread \in Linked(topics)
      BY <1>2 DEF Linked
    <2>2. PICK j \in Mapped(topics) : Carries(j, l)
      BY <1>2, <2>1 DEF Handed
    <2>3. topics[j].thread = topics[k].thread
      BY <1>2, <2>2 DEF Carries
    <2>4. j = k
      BY <1>1, <2>3 DEF Single
    <2> QED
      BY <2>2, <2>4
  <1>3. ASSUME NEW t \in Linked(topics) \cap Linked(topics'), MutedIn(topics, t)
        PROVE  MutedIn(topics', t) \/ Lifted(t)
    <2>1. PICK k \in Key : topics[k].thread = t /\ topics[k].muted
      BY <1>3 DEF MutedIn
    <2>2. PICK l \in Mapped(topics') : topics'[l].thread = t
      BY <1>3 DEF Linked
    <2>3. k \in Mapped(topics) /\ l \in Key
      BY <2>1, <2>2 DEF Mapped
    <2>4. Carries(k, l)
      BY <1>2, <2>1, <2>2, <2>3
    <2> QED
      BY <2>1, <2>2, <2>3, <2>4 DEF Carries, MutedIn
  <1> QED
    BY <1>2, <1>3 DEF Carries

(* An entry stays as it is, or holds no topic of before.                   *)
LEMMA HandedUnless ==
  ASSUME \A l \in Key : topics'[l] = topics[l] \/ topics'[l].thread \notin Linked(topics)
  PROVE  Handed
  <1> SUFFICES ASSUME NEW l \in Mapped(topics'), topics'[l].thread \in Linked(topics)
               PROVE  \E k \in Mapped(topics) : Carries(k, l)
    BY DEF Handed
  <1>1. l \in Key /\ topics'[l] = topics[l] /\ l \in Mapped(topics)
    BY DEF Mapped
  <1> QED
    BY <1>1 DEF Carries, ConflictsWith

LEMMA HandedForgets ==
  ASSUME TypeOK, NEW k \in Key, topics' = Forget(topics, k)
  PROVE  Handed
  <1>1. \A l \in Key : l # k => topics'[l] = topics[l]
    BY DEF TypeOK, TablesOK, Tables, Forget
  <1>2. topics'[k].thread = 0
    BY DEF TypeOK, TablesOK, Tables, Forget, NoEntry
  <1>3. 0 \notin Linked(topics)
    BY DEF Linked, Mapped
  <1> QED
    BY <1>1, <1>2, <1>3, HandedUnless

(* The file knows what the memory knows, and a topic that is gone.         *)
LEMMA HandedByFile ==
  ASSUME Before, topics' = disk.topics
  PROVE  Handed
  <1>1. disk.topics \in Tables /\ Single(disk.topics) /\ key \in Key
    BY EntryHere DEF Before, IInv, OneEntryPerTopic, Records
  <1>2. CASE disk.topics = topics
    BY <1>2, HandedUnless
  <1>3. CASE topics = Forget(disk.topics, key) /\ disk.topics[key].thread # 0
    <2>1. \A l \in Key : l # key => topics[l] = topics'[l]
      BY <1>1, <1>3 DEF Tables, Forget
    <2>2. Mapped(topics) = Mapped(disk.topics) \ {key}
      BY <1>1, <1>3, ForgetLinked
    <2>3. \A l \in Mapped(topics) : topics[l].thread # disk.topics[key].thread
      BY <1>1, <1>3, <2>1, <2>2 DEF Single, Mapped
    <2>4. topics'[key].thread \notin Linked(topics)
      BY <2>3 DEF Linked
    <2> QED
      BY <2>1, <2>4, HandedUnless
  <1> QED
    BY <1>2, <1>3 DEF Before, IInv, DiskOK

LEMMA HandedByRecord ==
  ASSUME TypeOK, NEW k \in Key, NEW e \in Entry, e.thread = topics[k].thread,
         topics[k].muted => e.muted \/ Lifted(topics[k].thread), topics' = Touch(k, e)
  PROVE  Handed
  <1> SUFFICES ASSUME NEW l \in Mapped(topics')
               PROVE  \E j \in Mapped(topics) : Carries(j, l)
    BY DEF Handed
  <1>1. l \in Key /\ topics'[l].thread # 0
    BY DEF Mapped
  <1>2. topics'[l].thread = topics[l].thread
    BY <1>1, TouchThreads
  <1>3. l \in Mapped(topics) /\ ~ConflictsWith(l, l)
    BY <1>1, <1>2 DEF Mapped, ConflictsWith
  <1>4. CASE l = k
    <2>1. topics'[k].muted = e.muted
      BY DEF Touch, TypeOK, TablesOK, Tables, Entry
    <2> QED
      BY <1>2, <1>3, <1>4, <2>1 DEF Carries
  <1>5. CASE l # k
    <2>1. topics'[l] = topics[l]
      BY <1>1, <1>5 DEF Touch, TypeOK, TablesOK, Tables
    <2> QED
      BY <1>2, <1>3, <2>1 DEF Carries
  <1> QED
    BY <1>4, <1>5

(* An agent that came back takes a topic of its own session along, or of   *)
(* an unknown one, with the mute.                                          *)
LEMMA HandedByPlan ==
  ASSUME Before, at = "none", NEW L \in SUBSET Agent, Distinct(L),
         topics' = Continued(topics, L)
  PROVE  Handed
  <1> SUFFICES ASSUME NEW l \in Mapped(topics')
               PROVE  \E k \in Mapped(topics) : Carries(k, l)
    BY DEF Handed
  <1>1. topics \in [Key -> Entry] /\ l \in Key /\ topics'[l].thread # 0
    BY BetweenOperations DEF Mapped
  <1>2. PICK k \in Mapped(topics) : ComesFrom(topics, L, l, k)
    BY <1>1, ContinuedEntry
  <1>3. k \in Key
    BY DEF Mapped
  <1>4. topics'[l].thread = topics[k].thread /\ topics'[l].muted = topics[k].muted
    BY <1>1, <1>2, <1>3, ContinuedEntry
  <1>5. KeysOf(L) \subseteq Key
    BY DEF KeysOf, Agent
  <1>6. \A m \in PlanReassociation(topics, L) : ~ConflictsWith(m.from, m.to)
    BY <1>5, PlanKeepsSessionsApart
  <1>7. ~ConflictsWith(k, l)
    BY <1>2, <1>6 DEF ComesFrom, ConflictsWith
  <1> QED
    BY <1>4, <1>7 DEF Carries

---------------------------------------------------------------------------
(* The operations: the table stays, is read again from the file, loses the *)
(* agent's entry, or has a record in it.                                   *)

Plain == topics' = topics \/ topics' = disk.topics \/ topics' = Forget(topics, key)

LEMMA PlainHanded == Before /\ Plain => Handed
  <1>1. Before /\ topics' = topics => Handed
    BY HandedUnless
  <1>2. Before /\ topics' = Forget(topics, key) => Handed
    BY HandedForgets, EntryHere DEF Before
  <1> QED
    BY <1>1, <1>2, HandedByFile DEF Plain

LEMMA SaveFailsPlain == SaveFails => Plain
  BY DEF SaveFails, Fatal, Down, Plain

LEMMA FailPlain == ASSUME NEW t, NEW v, FailPolicy(t, v) PROVE Plain
  BY SaveFailsPlain DEF FailPolicy, Saved, Forbidden, Fatal, Down, tables, Plain

LEMMA AnsweredPlain ==
  ASSUME NEW t, NEW v, NEW next, Answered(t, v, next)
  PROVE  Plain
  <1>1. CASE FailPolicy(t, v)
    BY <1>1, FailPlain
  <1>2. CASE UNCHANGED <<life, tables, memory, herd>>
    BY <1>2 DEF tables, Plain
  <1> QED
    BY <1>1, <1>2 DEF Answered

LEMMA RecordedHanded ==
  ASSUME Before, NEW e \in Entry, e.thread = topics[key].thread, e.muted = topics[key].muted,
         NEW next, Recorded(e, next)
  PROVE  Handed
  <1>1. TypeOK /\ key \in Key
    BY EntryHere DEF Before
  <1>2. CASE SaveFails
    BY <1>2, SaveFailsPlain, PlainHanded
  <1>3. CASE Saved(Touch(key, e), pending)
    <2>1. topics' = Touch(key, e)
      BY <1>3 DEF Saved
    <2> QED
      BY <1>1, <2>1, HandedByRecord
  <1> QED
    BY <1>2, <1>3 DEF Recorded

(* What the records are about is not the mute.                             *)
LEMMA RecordsKeepMute ==
  ASSUME NEW e \in Entry
  PROVE  /\ \A f \in {[e EXCEPT !.closed = FALSE], [e EXCEPT !.closed = TRUE],
                      [e EXCEPT !.status = Exited],
                      [e EXCEPT !.status = Exited, !.closed = TRUE]} :
              f \in Entry /\ f.thread = e.thread /\ f.muted = e.muted
         /\ \A a \in Agent : \A f \in {[e EXCEPT !.name = a.name, !.status = a.status]} :
              f \in Entry /\ f.thread = e.thread /\ f.muted = e.muted
         /\ \A n \in Name : \A f \in {[e EXCEPT !.name = n]} :
              f \in Entry /\ f.thread = e.thread /\ f.muted = e.muted
  BY ZenonT(60) DEF Entry, Agent

LEMMA CreationHanded ==
  Before /\ (Create \/ Intent \/ Creating \/ CreateRepeated \/ LinkTopic \/ ClearIntent) => Handed
  <1> SUFFICES ASSUME Before PROVE
        (Create \/ Intent \/ Creating \/ CreateRepeated \/ LinkTopic \/ ClearIntent) => Handed
    OBVIOUS
  <1>1. ASSUME Create PROVE Handed
    <2>1. Plain
      BY <1>1 DEF Create, Quit, Proceed, tables, Plain
    <2> QED BY <2>1, PlainHanded
  <1>2. ASSUME Intent PROVE Handed
    <2>1. Plain
      BY <1>2, SaveFailsPlain DEF Intent, Fatal, Down, Saved, Plain
    <2> QED BY <2>1, PlainHanded
  <1>3. ASSUME Creating \/ CreateRepeated PROVE Handed
    <2>1. Plain
      BY <1>3 DEF Creating, CreateRepeated, Fatal, Down, tables, Plain
    <2> QED BY <2>1, PlainHanded
  <1>4. ASSUME LinkTopic PROVE Handed
    <2>1. CASE SaveFails
      BY <2>1, SaveFailsPlain, PlainHanded
    <2>2. CASE Saved(Link(topics, Mine(key), made, now), pending \ {key})
      <3> DEFINE new == Link(topics, Mine(key), made, now)
      <3>1. /\ disk.topics = topics /\ key \in Key /\ topics \in Tables
            /\ key \in KeysOf(agents) /\ made \notin Linked(topics)
        BY <1>4, EntryHere
           DEF LinkTopic, Before, IInv, DiskOK, StepOK, StepsOnAgents, ForumOK
      <3>2. Mine(key).key = key
        BY <3>1, MineIsAgent DEF Before, TypeOK, MemoryOK
      <3>3. new[key].thread = made /\ \A l \in Key : l # key => new[l] = topics[l]
        BY <3>1, <3>2 DEF Link, Tables
      <3> HIDE DEF new
      <3>4. topics' = new
        BY <2>2 DEF Saved, new
      <3> QED
        BY <3>1, <3>3, <3>4, HandedUnless
    <2> QED
      BY <1>4, <2>1, <2>2 DEF LinkTopic
  <1>5. ASSUME ClearIntent PROVE Handed
    <2>1. at \in {"rejected", "migrated"}
      BY <1>5 DEF ClearIntent
    <2>2. Plain
      BY <1>5, SaveFailsPlain DEF ClearIntent, Down, Saved, Plain
    <2> QED BY <2>2, PlainHanded
  <1> QED
    BY <1>1, <1>2, <1>3, <1>4, <1>5

LEMMA CallsHanded ==
  Before /\ (Revive \/ Reopening \/ Refreshing \/ Edit \/ Editing \/ Finish \/ Exiting
               \/ Close \/ Closing \/ Deleting \/ Deleted) => Handed
  <1>1. Revive \/ Edit \/ Finish \/ Close => Plain
    BY DEF Revive, Edit, Finish, Close, Quit, Proceed, tables, Plain
  <1>2. Reopening => Plain
    BY FailPlain DEF Reopening, tables, Plain
  <1>3. Refreshing => Plain
    BY FailPlain, SaveFailsPlain DEF Refreshing, Saved, tables, Plain
  <1>4. Editing \/ Exiting \/ Closing => Plain
    BY AnsweredPlain DEF Editing, Exiting, Closing
  <1>5. Deleting => Plain
    BY DEF Deleting, tables, Plain
  <1>6. Deleted => Plain
    BY SaveFailsPlain DEF Deleted, Saved, Plain
  <1> QED
    BY <1>1, <1>2, <1>3, <1>4, <1>5, <1>6, PlainHanded

LEMMA RecordsHanded ==
  Before /\ (Reopened \/ Refreshed \/ Edited \/ Exit \/ ExitRecorded \/ Closed) => Handed
  <1> SUFFICES ASSUME Before, Reopened \/ Refreshed \/ Edited \/ Exit \/ ExitRecorded \/ Closed
               PROVE  Handed
    OBVIOUS
  <1>1. topics[key] \in Entry
    BY EntryHere DEF Before
  <1>2. CASE Reopened \/ ExitRecorded \/ Closed
    <2>1. \E e \in Entry, next \in {"refreshing", "close", "none"} :
            e.thread = topics[key].thread /\ e.muted = topics[key].muted /\ Recorded(e, next)
      BY <1>1, <1>2, RecordsKeepMute DEF Reopened, ExitRecorded, Closed
    <2> QED
      BY <2>1, RecordedHanded
  <1>3. CASE Refreshed \/ Edited
    <2>1. Mine(key) \in Agent
      BY <1>3, OnAgent DEF Refreshed, Edited, StepsOnAgents
    <2> DEFINE e == [topics[key] EXCEPT !.name = Mine(key).name, !.status = Mine(key).status]
    <2>2. e \in Entry /\ e.thread = topics[key].thread /\ e.muted = topics[key].muted
      BY <1>1, <2>1, RecordsKeepMute
    <2>3. Recorded(e, "none")
      BY <1>3 DEF Refreshed, Edited
    <2> HIDE DEF e
    <2> QED
      BY <2>2, <2>3, RecordedHanded
  <1>4. CASE Exit
    <2>1. CASE Recorded([topics[key] EXCEPT !.status = Exited, !.closed = TRUE], "none")
      <3>1. \E e \in Entry :
              e.thread = topics[key].thread /\ e.muted = topics[key].muted /\ Recorded(e, "none")
        BY <1>1, <2>1, RecordsKeepMute
      <3> QED
        BY <3>1, RecordedHanded
    <2>2. CASE Plain
      BY <2>2, PlainHanded
    <2> QED
      BY <1>4, <2>1, <2>2 DEF Exit, Quit, Proceed, tables, Plain
  <1> QED
    BY <1>2, <1>3, <1>4

---------------------------------------------------------------------------
(* The loop, the updates, the process and the world.                       *)

LEMMA EventHanded == Before /\ HandleEvent => Handed
  <1> SUFFICES ASSUME Before, HandleEvent PROVE Handed
    OBVIOUS
  <1> DEFINE ev == Head(batch)
             new == IF ev.kind = "gone" THEN topics ELSE Continued(topics, {ev.agent})
  <1>1. at = "none"
    BY DEF HandleEvent
  <1>2. ev \in Event
    BY HeadTailProperties DEF HandleEvent, Before, TypeOK, WorkOK
  <1> HIDE DEF ev
  <1>3. ev.agent \in Agent
    BY <1>2 DEF Event
  <1>4. CASE SaveFails
    BY <1>4, SaveFailsPlain, PlainHanded
  <1>5. CASE IF dirty \/ new # topics THEN Saved(new, pending) ELSE UNCHANGED tables
    <2>1. topics' = topics \/ topics' = Continued(topics, {ev.agent})
      BY <1>5 DEF Saved, tables
    <2>2. topics' = topics => Handed
      BY HandedUnless
    <2>3. topics' = Continued(topics, {ev.agent}) => Handed
      BY <1>1, <1>3, OneAgentTyped, HandedByPlan
    <2> QED
      BY <2>1, <2>2, <2>3
  <1> QED
    BY <1>4, <1>5 DEF HandleEvent, ev

LEMMA PassHanded == Before /\ PassStarts => Handed
  <1> SUFFICES ASSUME Before, PassStarts PROVE Handed
    OBVIOUS
  <1> DEFINE once == DedupeThreads(topics)
             new == Continued(once, registry)
  <1>1. at = "none"
    BY DEF PassStarts, InLoop
  <1>2. once = topics
    BY <1>1, BetweenOperations, SingleIsDeduped
  <1>3. CASE SaveFails
    BY <1>3, SaveFailsPlain, PlainHanded
  <1>4. CASE \/ IF dirty THEN Saved(topics, pending) ELSE UNCHANGED tables
             \/ IF dirty \/ new # topics THEN Saved(new, pending) ELSE UNCHANGED tables
    <2>1. topics' = topics \/ topics' = Continued(topics, registry)
      BY <1>2, <1>4 DEF Saved, tables
    <2>2. topics' = topics => Handed
      BY HandedUnless
    <2>3. topics' = Continued(topics, registry) => Handed
      BY <1>1, WorldTyped, HandedByPlan DEF Before, TypeOK, HerdOK
    <2> QED
      BY <2>1, <2>2, <2>3
  <1> QED
    BY <1>3, <1>4 DEF PassStarts

LEMMA LoopHanded == Before /\ Loop => Handed
  <1>1. FlushStarts \/ FlushEnds \/ NextInLoop \/ LoopEnds \/ StopEnds => Plain
    BY DEF FlushStarts, FlushEnds, NextInLoop, LoopEnds, StopEnds, Fatal, Down, tables, Plain
  <1> QED
    BY <1>1, EventHanded, PassHanded, PlainHanded DEF Loop

(* An operator's update changes the entry of the topic it is about.        *)
LEMMA UpdateHanded ==
  ASSUME Before, NEW k \in Key, NEW e \in Entry, e.thread = topics[k].thread,
         topics[k].muted => e.muted \/ Lifted(topics[k].thread),
         Saved(Touch(k, e), pending) \/ SavedOnly(Touch(k, e))
  PROVE  Handed
  <1>1. CASE SaveFails
    BY <1>1, SaveFailsPlain, PlainHanded
  <1>2. CASE Saved(Touch(k, e), pending)
    <2>1. topics' = Touch(k, e) /\ TypeOK
      BY <1>2 DEF Saved, Before
    <2> QED
      BY <2>1, HandedByRecord
  <1> QED
    BY <1>1, <1>2 DEF SavedOnly

LEMMA ClosedUpdateHanded == Before /\ OnTopicClosed => Handed
  <1> SUFFICES ASSUME Before, OnTopicClosed PROVE Handed
    OBVIOUS
  <1> DEFINE t == Head(inbox).thread
             k == Owner(t)
  <1>1. TypeOK /\ OneEntryPerTopic
    BY DEF Before, IInv
  <1>2. CASE UNCHANGED tables
    BY <1>2, PlainHanded DEF tables, Plain
  <1>3. CASE /\ Holders(topics, t) # {}
             /\ \/ SavedOnly(Touch(k, [topics[k] EXCEPT !.muted = TRUE]))
                \/ SavedOnly(Touch(k, [topics[k] EXCEPT !.closed = TRUE]))
    <2>1. k \in Key
      BY <1>1, <1>3, OwnerHolds
    <2> HIDE DEF k
    <2>2. topics[k] \in Entry
      BY <1>1, <2>1 DEF TypeOK, TablesOK, Tables
    <2>3. \A e \in {[topics[k] EXCEPT !.muted = TRUE], [topics[k] EXCEPT !.closed = TRUE]} :
            /\ e \in Entry /\ e.thread = topics[k].thread
            /\ topics[k].muted => e.muted
      BY <2>2 DEF Entry
    <2> QED
      BY <1>3, <2>1, <2>3, UpdateHanded
  <1> QED
    BY <1>2, <1>3 DEF OnTopicClosed

LEMMA ReopenedUpdateHanded == Before /\ OnTopicReopened => Handed
  <1> SUFFICES ASSUME Before, OnTopicReopened PROVE Handed
    OBVIOUS
  <1> DEFINE t == Head(inbox).thread
             k == Owner(t)
             e == [topics[k] EXCEPT !.muted = FALSE, !.closed = FALSE]
  <1>1. TypeOK /\ OneEntryPerTopic /\ Took
    BY DEF Before, IInv, OnTopicReopened
  <1>2. CASE UNCHANGED tables
    BY <1>2, PlainHanded DEF tables, Plain
  <1>3. CASE SaveFails
    BY <1>3, SaveFailsPlain, PlainHanded
  <1>4. CASE Holders(topics, t) # {} /\ Saved(Touch(k, e), pending)
    <2>1. k \in Key /\ topics[k].thread = t
      BY <1>1, <1>4, OwnerHolds
    <2>2. Lifted(t)
      <3>1. Head(inbox) \in Update /\ Head(inbox).kind = "reopened" /\ inbox # <<>>
        BY <1>1, TookTyped DEF OnTopicReopened, Took
      <3>2. Head(inbox) \in [kind : {"closed", "reopened"}, thread : Thread]
        BY <3>1 DEF Update
      <3> QED
        BY <3>1, <3>2 DEF Lifted
    <2> HIDE DEF k, t
    <2>3. topics[k] \in Entry
      BY <1>1, <2>1 DEF TypeOK, TablesOK, Tables
    <2>4. e \in Entry /\ e.thread = topics[k].thread
      BY <2>3 DEF Entry
    <2> HIDE DEF e
    <2> QED
      BY <1>4, <2>1, <2>2, <2>4, UpdateHanded
  <1> QED
    BY <1>2, <1>3, <1>4 DEF OnTopicReopened

LEMMA RenamedUpdateHanded == Before /\ OnTopicRenamed => Handed
  <1> SUFFICES ASSUME Before, OnTopicRenamed PROVE Handed
    OBVIOUS
  <1> DEFINE t == Head(inbox).thread
             n == Head(inbox).name
             k == Owner(t)
             e == [topics[k] EXCEPT !.name = n]
  <1>1. TypeOK /\ OneEntryPerTopic /\ Took
    BY DEF Before, IInv, OnTopicRenamed
  <1>2. n \in Name
    <2>1. Head(inbox) \in Update /\ Head(inbox).kind = "renamed"
      BY <1>1, TookTyped DEF OnTopicRenamed
    <2>2. Head(inbox) \in [kind : {"renamed"}, thread : Thread, name : Name]
      BY <2>1 DEF Update
    <2> QED
      BY <2>2
  <1>3. CASE UNCHANGED tables
    BY <1>3, PlainHanded DEF tables, Plain
  <1>4. CASE SaveFails
    BY <1>4, SaveFailsPlain, PlainHanded
  <1>5. CASE Holders(topics, t) # {} /\ Saved(Typed(k, n), pending)
    <2>1. k \in Key
      BY <1>1, <1>5, OwnerHolds
    <2> HIDE DEF k, n
    <2>2. topics[k] \in Entry
      BY <1>1, <2>1 DEF TypeOK, TablesOK, Tables
    <2>3. e \in Entry /\ e.thread = topics[k].thread /\ e.muted = topics[k].muted
      BY <1>2, <2>2, RecordsKeepMute
    <2>4. Saved(Touch(k, e), pending)
      BY <1>5 DEF Typed
    <2> HIDE DEF e
    <2> QED
      BY <2>1, <2>3, <2>4, UpdateHanded
  <1> QED
    BY <1>3, <1>4, <1>5 DEF OnTopicRenamed

LEMMA TakeHanded == Before /\ Take => Handed
  <1>1. TakeEvent \/ TakeDue \/ CatchUp \/ SweepStarts \/ OnRightsChanged => Plain
    BY DEF TakeEvent, TakeDue, CatchUp, SweepStarts, OnRightsChanged, tables, Plain
  <1> QED
    BY <1>1, PlainHanded, ClosedUpdateHanded, ReopenedUpdateHanded, RenamedUpdateHanded DEF Take

LEMMA WorldPlain == World \/ TimerFires \/ Start \/ UNCHANGED vars => Plain
  BY DEF World, ClearDashboard, Crash, StopStarts, AgentsChange, OperatorActs, RightChanges,
         HoldChanges, AskResync, DaysPass, TimerFires, Start, Fatal, Down, tables, vars, Plain

LEMMA EveryStepHands == Before /\ [Next]_vars => Handed
  <1>1. Before /\ Operation => Handed
    BY CreationHanded, CallsHanded, RecordsHanded DEF Operation
  <1> QED
    BY <1>1, LoopHanded, TakeHanded, WorldPlain, PlainHanded DEF Next

(* A topic never passes from an agent of one known session to an agent of  *)
(* another, whatever the listings, the events, the failures and the        *)
(* restarts (docs/behaviour.md: two different non-empty session digests    *)
(* never share a topic).                                                   *)
THEOREM TopicsAreNotInherited == Spec => NeverInherited
  <1>1. TypeOK /\ IInv /\ [Next]_vars =>
          [\A k \in Mapped(topics), l \in Mapped(topics') :
             topics[k].thread = topics'[l].thread => ~ConflictsWith(k, l)]_vars
    BY EveryStepHands, HandedSuffices DEF Before
  <1> QED
    BY <1>1, Invariant, PTL DEF Spec, NeverInherited

(* A topic the operator has muted stays muted, under whatever key, until   *)
(* the step that handles the operator's reopening of it.                   *)
THEOREM MutesAreKept == Spec => MuteKept
  <1>1. TypeOK /\ IInv /\ [Next]_vars =>
          [\A t \in Linked(topics) \cap Linked(topics') :
             MutedIn(topics, t) =>
               \/ MutedIn(topics', t)
               \/ inbox # <<>> /\ Head(inbox) = [kind |-> "reopened", thread |-> t]]_vars
    BY EveryStepHands, HandedSuffices DEF Before, Lifted
  <1> QED
    BY <1>1, Invariant, PTL DEF Spec, MuteKept
=============================================================================
