CONSTANTS
  alice = alice
  bob = bob
  mp1 = mp1
  mp2 = mp2
  r1 = r1
  Global = Global
  Searches = {1, 2, 3}
  Users <- MCUsers
  Owner <- MCOwner
  Markets <- MCMarkets
  Market <- MCMarket
  Limit <- MCLimit
  Finders <- MCFinders
  Requests = {r1}

SPECIFICATION Spec

INVARIANTS
  TypeOK
  WithinLimits
  AlertsOncePerRise
