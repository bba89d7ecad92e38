SPECIFICATION SupportSpec
CONSTANTS
  SupportThreads = {t}
  Handlers = {h}
  Workers = {w}
  QueueSize = 1
  maxRetries = 1
  MaxContacts = 2
  MaxTroubles = 0
CHECK_DEADLOCK FALSE
INVARIANT KeywordForcesIncident
