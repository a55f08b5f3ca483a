\* A scheme of response type id_token brings no access token.
SPECIFICATION Spec
CONSTANTS
  Browsers = {b1}
  Names = {n1}
  ValidNames = {n1}
  Schemes = {code, id_token}
  TokenSchemes = {code}
  Requests = {r1, r2}
  Ids = {i1, i2}
  None = None
INVARIANTS
  ScratchPadEmpties
