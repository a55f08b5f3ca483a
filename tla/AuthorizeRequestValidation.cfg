\* Every combination of parameters.  A run ends with its verdict.
SPECIFICATION Spec
CONSTANTS
  u1 = u1
  u2 = u2
  c1 = c1
  c2 = c2
  c3 = c3
  s1 = s1
  s2 = s2
  Schemes = {s1, s2}
  ClientIds = {c1, c2, c3}
  RedirectUris = {u1, u2}
  Registered <- MCRegistered
  Challenges = {v1}
  BadChallenge = bad
  ResponseTypes <- MCResponseTypes
  None = None
INVARIANTS
  StoredIsCoreRequest
  StoredCanBeAnswered
CHECK_DEADLOCK FALSE
