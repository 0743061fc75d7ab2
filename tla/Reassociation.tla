--------------------------- MODULE Reassociation ----------------------------
(***************************************************************************)
(* The mapping through a history of restarts of Herdr: what the start of   *)
(* Reconciler.Reconcile (reconciler.go) does to the stored table, for any  *)
(* table a file may hold and any succession of snapshots, without the      *)
(* Telegram calls that follow.                                             *)
(***************************************************************************)
EXTENDS Mapping

CONSTANTS Tables,   \* tables a mapping file may hold
          Lives     \* sets of agents a snapshot may list

ASSUME TablesAssumption == Tables \subseteq [Key -> Entry]
ASSUME LivesAssumption ==
  /\ Lives \subseteq SUBSET Agent
  /\ \A L \in Lives : \A a, b \in L : a.key = b.key => a = b

VARIABLES topics, live
history == <<topics, live>>

Stored == topics \in Tables /\ live \in Lives

(* The pass: duplicate threads are dropped, then every live agent gets the *)
(* topic it continues.                                                     *)
Dedupe == ~Single(topics) /\ topics' = DedupeThreads(topics) /\ UNCHANGED live

Reassociate ==
  /\ Single(topics) /\ Applicable(topics, PlanReassociation(topics, live))
  /\ topics' = Continued(topics, live) /\ UNCHANGED live

NewSnapshot == live' \in Lives /\ UNCHANGED topics

Pass == Dedupe \/ Reassociate \/ NewSnapshot
History == Stored /\ [][Pass]_history

---------------------------------------------------------------------------
TableOK == topics \in [Key -> Entry] /\ live \in Lives

(* ApplyReassociation never refuses the plan PlanReassociation has made of *)
(* the same mapping, so a snapshot never ends the daemon.                  *)
FreshPlanApplies == Applicable(topics, PlanReassociation(topics, live))

(* No agent of a known session is given the entry of another one's key.    *)
NeverFromAnotherSession ==
  \A m \in PlanReassociation(topics, live) : ~ConflictsWith(m.from, m.to)

(* After a pass no two agents hold one topic.                              *)
OneHolder == [][Single(topics) \/ topics' # topics => Single(topics')]_history

(* The events of a snapshot, handled one agent at a time in any order,     *)
(* lead to the table the pass over the whole snapshot leads to, for agents *)
(* alone in their pane, as Herdr's are.                                    *)
Alone(a) == \A b \in live : b.key.pane = a.key.pane => b = a
OneByOne ==
  [][topics' # topics /\ Single(topics) =>
       \A a \in live : Alone(a) =>
         \E first \in {Continued(topics, {a})} : Continued(first, live \ {a}) = topics']_history
=============================================================================
