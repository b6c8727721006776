SPECIFICATION Spec
CONSTANTS
  Offers = {o1, o2}
  Calls = {c1, c2}
  None = None
  MaxTx = 2
  MaxCrashes = 1
INVARIANTS
  TypeOK
  FundedOnce
  AnswersAreRegistered
PROPERTIES
  RecordedIsRegistered
CHECK_DEADLOCK FALSE
