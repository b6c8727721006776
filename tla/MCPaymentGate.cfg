SPECIFICATION Spec
CONSTANTS
  m1 = m1
  m2 = m2
  s1 = s1
  p1 = p1
  p2 = p2
  c1 = c1
  c2 = c2
  None = None
  Missions = {m1, m2}
  Sessions = {s1}
  Nonces = {1, 2}
  Providers = {p1, p2}
  Calls = {c1, c2}
  MaxCrashes = 1
CONSTANTS
  Policies <- MCPolicies
  Challenges <- MCChallenges
INVARIANTS
  TypeOK
  WithinCaps
  OnePaymentPerNonce
  ReleasedIsReserved
  OneBuilderPerMission
  IntentBinding
  BudgetIsReserved
PROPERTIES
  CallsEnd
  ImplementsBudget
CHECK_DEADLOCK FALSE
