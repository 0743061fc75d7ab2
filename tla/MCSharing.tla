------------------------------ MODULE MCSharing -----------------------------
(* One recipient, two grants; an agent that keeps its session under        *)
(* another key after a restart of Herdr (k1, k2), and one without a        *)
(* session (u).  The second grant changes less often.                      *)
EXTENDS Sharing, TLC
CONSTANTS k1, k2, u, g1, g2
MCDigest == [k \in Keys |-> IF k = u THEN Unknown ELSE "d"]
MCRevisions == [g \in Grants |-> IF g = g1 THEN 4 ELSE 2]
Symmetry == Permutations({k1, k2})
=============================================================================
