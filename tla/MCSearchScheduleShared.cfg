CONSTANTS
  alice = alice
  bob = bob
  PaidUsers <- MCPaidUsers
  MaxDispatchPerTick <- MCOneSlotEach
  BaseInterval <- MCEveryTick
  Searches <- MCSearchesTwo
  Users <- MCUsersTwo
  Owner <- MCOwnerTwo
  Weight <- MCWeightTwo
  MaxStaleness = 2
  SignalBoost = 1
  EmptyStep = 1
  EmptyCap = 1
  EmptyShift = 0
  FailStep = 0
  FailCap = 0
  FailShift = 0
  EmptyTop = 1
  FailTop = 0
  DeferBelow = 2
  NoTask = NoTask
  r1 = r1
  Requests = {r1}
  MaxLag = 1
  Edited = {}

SPECIFICATION Spec

INVARIANTS
  ProductiveSearchesSpared
  DeferralStopsAtBudget
