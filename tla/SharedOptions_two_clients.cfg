\* Two logins of different clients.
SPECIFICATION Spec
CONSTANTS
  Logins = {l1, l2}
  Clients = {c1, c2}
  Configured = Configured
  None = None
INVARIANT NeverRedeemsAsAnother
