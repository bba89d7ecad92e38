CONSTANTS
  h1 = h1
  h2 = h2
  Subs <- MCSubs
  PaidTiers <- MCPaidTiers
  Handlers = {h1, h2}
  Reconcilers <- MCReconcilers
  MaxEvents = 3
  MaxMishaps = 1

SPECIFICATION Spec

INVARIANTS
  TypeOK
  EventsActOnce
PROPERTIES
  Settles
