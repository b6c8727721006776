SPECIFICATION Spec
CONSTANTS
  Loans = {l1}
  Calls = {c1, c2}
  MaxTx = 3
  MaxCrashes = 2
  MirrorOutage = FALSE
  LateRejection = FALSE
  None = None
INVARIANTS
  TypeOK
  PaidOnce
  PaidForCompletion
  AnswersAreThePayment
  SettledOnce
  InFlightIsRecorded
PROPERTIES
  FreshOnlyWhenDead
  EventuallyRepaid
  ImplementsRepayOnce
