SPECIFICATION Spec
CONSTANTS
  Offers = {o1}
  Calls = {c1}
  None = None
  MaxTx = 1
  MaxCrashes = 0
PROPERTIES
  FundedIsRegistered
CHECK_DEADLOCK FALSE
