SPECIFICATION Spec
CONSTANTS
  Calls = {c1, c2}
  Worker = Worker
  None = None
  Gone = Gone
  PaymentLease = 1
  ValidUntil = 2
  VerifiedLease = 3
  Grace = 1
  MaxCrashes = 2
  MirrorOutage = FALSE
INVARIANTS
  TypeOK
  ScannedAndSettledOnce
  ReportIsPaid
  FailedIsUnpaid
  DeliveredStays
PROPERTIES
  AttemptIsResolved
  PaidIsCalledBack
