\* Two browsers, a name Identity allows and one it does not, at most two users.
SPECIFICATION Spec
CONSTANTS
  Browsers = {b1, b2}
  Names = {n1, n2}
  ValidNames = {n1}
  Schemes = {code}
  TokenSchemes = {code}
  Requests = {r1, r2}
  Ids = {i1, i2}
  None = None
SYMMETRY Symmetry
INVARIANTS
  IInv
  UsersAreScratch
  ClaimsOrCrossed
  EvictedWereDisturbed
PROPERTIES
  RefusedOnCollision
