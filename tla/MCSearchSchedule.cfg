CONSTANTS
  alice = alice
  bob = bob
  PaidUsers <- MCPaidUsers
  MaxDispatchPerTick <- MCOneSlotEach
  BaseInterval <- MCEveryTick
  Searches <- MCSearchesOne
  Users <- MCUsersOne
  Owner <- MCOwnerOne
  Weight <- MCWeightOne
  MaxStaleness = 5
  SignalBoost = 1
  EmptyStep = 1
  EmptyCap = 1
  EmptyShift = 0
  FailStep = 3
  FailCap = 6
  FailShift = 1
  EmptyTop = 1
  FailTop = 2
  DeferBelow = 2
  NoTask = NoTask
  r1 = r1
  Requests = {}
  MaxLag = 2
  Edited = {1}

SPECIFICATION Spec

INVARIANTS
  TypeOK
PROPERTIES
  HealthySearchesRun
