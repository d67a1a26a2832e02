SPECIFICATION Spec
CONSTANTS
  BpUnit = 2
  YearScale = 10000
  MaxAge = 5
  Policies <- MCPolicies
  Markets <- MCMarkets
  Positions <- MCPositions
  TickEvery = 15
  Horizon = 75
  Ages = {5, 6}
CHECK_DEADLOCK FALSE
INVARIANTS
  TypeOK
  QuotaHolds
  CooldownHolds
  PlansAreExecutable
PROPERTIES
  CapHolds
  MovesRaiseYield
  MovesOnlyInCalm
