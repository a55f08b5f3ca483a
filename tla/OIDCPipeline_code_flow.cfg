\* A request of the code flow without a code challenge.
SPECIFICATION Spec
CONSTANTS
  b1 = b1
  b2 = b2
  k1 = k1
  k2 = k2
  h1 = h1
  h2 = h2
  c1 = c1
  c2 = c2
  u1 = u1
  u2 = u2
  v1 = v1
  v2 = v2
  n1 = n1
  None = None
  Browsers = {b1}
  Keys = {k1}
  Handlers = {h1, h2}
  Clients = {c1, c2}
  RedirectUris = {u1, u2}
  Verifiers = {v1, v2}
  Nonces = {n1}
  Requests <- MCRequests
  TokenRequests <- MCTokenRequests
INVARIANTS
  CodeFlowGetsCode
