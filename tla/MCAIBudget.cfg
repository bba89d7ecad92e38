CONSTANTS
  scorer = scorer
  reply = reply
  owner1 = owner1
  CallSites <- MCCallSites
  ScorerSites <- MCScorerSites
  Owners <- MCOwners
  Est = 2
  Actuals <- MCActuals
  CapRequests <- MCCapRequests
  DefaultCapUSD = 4
  HardCeilingUSD = 10
  Window = 3
  Minute = 1
  CallTimeout = 1
  MaxTime = 5
  MaxCalls = 3
  MaxOverrides = 1
  Never = Never

SPECIFICATION Spec

INVARIANTS
  TypeOK
  EntriesOrdered
  Conservative
  SingleFlightExact
  SpendWithinCap
  CapAudited
PROPERTIES
  GcExact
  AlertsSpaced
