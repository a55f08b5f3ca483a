\* Requests whose fetches overtake each other and outlive the cached document.
\* Liveness: no symmetry.
SPECIFICATION LiveSpec
CONSTANTS
  Callers = {k1, k2}
  Caches = {a1, a2}
  Lazies = {z1, z2, z3, z4, z5}
  None = None
  CacheDuration = 1
  FetchTimeout = 1
INVARIANTS
  IInv
  FailuresAreNotCached
  DocumentsAreFresh
  FreshInv
PROPERTIES
  CallersAreAnswered
  AwaitedTasksRunOn
