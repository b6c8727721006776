SPECIFICATION Spec
CONSTANTS
  None = None
  Targets = {signer, lender}
  MaxProvisionAttempts = 2
  Handlers = {h1, h2}
  MaxAttempts = 3
  MaxReplays = 0
  Refusals = {}
  MaxCrashes = 0
PROPERTIES
  PaidCompletes
CHECK_DEADLOCK FALSE
