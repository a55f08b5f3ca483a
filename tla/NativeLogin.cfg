\* Three logins on the one port.  All may be over, and nothing arrive any more.
SPECIFICATION FairSpec
CONSTANTS
  Logins = {l1, l2, l3}
  None = None
CHECK_DEADLOCK FALSE
INVARIANTS
  IInv
  CodesStayWithTheirLogin
  FirstAnswerDecides
PROPERTIES
  LoginsEnd
  LoginsRunDown
