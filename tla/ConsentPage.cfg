\* Two processes on one table, and two visits.
SPECIFICATION Spec
CONSTANTS
  i1 = i1
  i2 = i2
  d1 = d1
  d2 = d2
  sample = sample
  samples = samples
  a1 = a1
  a2 = a2
  full = full
  modify = modify
  None = None
  Instances = {i1, i2}
  Visits = {v1, v2}
  Ids = {d1, d2}
  Names = {sample, samples}
  Seeded = sample
  Authorities = {a1, a2}
  WellFormed = {a1}
  Scopes = {full, modify}
  ScopesOf <- MCScopesOf
  Requests <- MCRequests
  Grants = {{full}}
CONSTRAINT OneAnswered
SYMMETRY Symmetry
INVARIANTS
  TypeOK
  OneServicePerName
  AsksAnAuthorityOfTheRow
  TokenHoldsConsent
  RefusalsDoNotFailThePage
