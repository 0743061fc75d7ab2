SPECIFICATION Spec
CONSTANTS
  g1 = g1
  g2 = g2
  Grants = {g1, g2}
  Recipients = {r1}
  Topics = {t1}
  k1 = k1
  k2 = k2
  u = u
  Keys = {k1, k2, u}
  Digest <- MCDigest
  Unknown = Unknown
  None = None
  MaxRevision <- MCRevisions
  MaxEvents = 1
  Terms = {"later"}
  MaxSpent = 2
  MaxCalls = 1
INVARIANTS DenialHolds OneTopic
PROPERTIES AsPromised
SYMMETRY Symmetry
CHECK_DEADLOCK FALSE
