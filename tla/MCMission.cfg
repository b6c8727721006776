SPECIFICATION Spec
CONSTANTS
  None = None
  Targets = {signer, lender}
  MaxProvisionAttempts = 2
  Handlers = {h1, h2}
  MaxAttempts = 3
  MaxReplays = 1
  Refusals = {400}
  MaxCrashes = 2
INVARIANTS
  TypeOK
  CompletedIsBacked
  EndsAgree
  DeliveredIsClosed
PROPERTIES
  CompletedCloses
CHECK_DEADLOCK FALSE
