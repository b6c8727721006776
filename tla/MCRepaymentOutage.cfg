SPECIFICATION Spec
CONSTANTS
  Loans = {l1}
  Calls = {c1, c2}
  MaxTx = 3
  MaxCrashes = 2
  MirrorOutage = TRUE
  LateRejection = FALSE
  None = None
PROPERTIES
  FreshOnlyWhenDead
