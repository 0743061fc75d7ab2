---------------------------- MODULE ShareAccess -----------------------------
(***************************************************************************)
(* What private sharing promises (docs/behaviour.md, "Private mirror       *)
(* lifecycle and recovery"; the comments of domain/sharing.go): a grant    *)
(* has a revision, work is admitted under the revision the grant has while *)
(* it is open, and a change of the grant gives it another revision and     *)
(* cancels whatever was admitted before.  How the grant changes, who may   *)
(* change it and what is saved is not said here: Sharing implements this.  *)
(***************************************************************************)
EXTENDS Naturals

CONSTANT Grants

VARIABLES open,      \* the grants work may be begun under
          revision,  \* of each grant
          work       \* what was admitted and not cancelled: its grant and revision
vars == <<open, revision, work>>

Init == open = {} /\ revision = [g \in Grants |-> 0] /\ work = {}

(* Some grants change at once: each may be opened or closed, has a new     *)
(* revision, and nothing that was admitted under it goes on.  A change     *)
(* that cannot be saved may close others with it: their revision stays,    *)
(* and what was admitted before goes on (sharing.go:529-538).              *)
Change(changed, closed) ==
  /\ changed # {} /\ closed \subseteq Grants \ changed
  /\ \A g \in changed : revision[g] < revision'[g]
  /\ \A g \in Grants \ changed : revision'[g] = revision[g]
  /\ open' \ changed = open \ (changed \cup closed)
  /\ work' = work \ {w \in work : w.grant \in changed}

Begin(g) ==
  /\ g \in open
  /\ work' = work \cup {[grant |-> g, revision |-> revision[g]]}
  /\ UNCHANGED <<open, revision>>

End(w) == work' = work \ {w} /\ UNCHANGED <<open, revision>>

(* The process starts again from what it saved.                            *)
Restart == work' = {} /\ open' \in SUBSET Grants /\ revision' \in [Grants -> Nat]

Next ==
  \/ \E changed, closed \in SUBSET Grants : Change(changed, closed)
  \/ \E g \in Grants : Begin(g)
  \/ \E w \in work : End(w)
  \/ Restart

Spec == Init /\ [][Next]_vars
=============================================================================
