\* Two browsers with a request each; every order of whole handlers of one
\* browser against the steps of the other.
SPECIFICATION Spec
CONSTANTS
  b1 = b1
  b2 = b2
  k1 = k1
  k2 = k2
  h1 = h1
  h2 = h2
  c1 = c1
  c2 = c2
  u1 = u1
  u2 = u2
  v1 = v1
  v2 = v2
  n1 = n1
  None = None
  Browsers = {b1, b2}
  Keys = {k1, k2}
  Handlers = {h1}
  Clients = {c1, c2}
  RedirectUris = {u1, u2}
  Verifiers = {v1, v2}
  Nonces = {n1}
  Requests <- MCRequests
  TokenRequests <- MCUriTokenRequests
CONSTRAINT NoRepeats
SYMMETRY Symmetry
INVARIANTS
  GrantedToRequester
  RedirectedToOwner
  AnsweredLoginsOnly
  IInv
