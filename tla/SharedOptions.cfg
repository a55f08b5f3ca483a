\* Three logins of up to two clients.
SPECIFICATION Spec
CONSTANTS
  Logins = {l1, l2, l3}
  Clients = {c1, c2}
  Configured = Configured
  None = None
SYMMETRY Symmetry
INVARIANTS
  IInv
  FailuresWereDisturbed
