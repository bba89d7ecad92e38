SPECIFICATION WorkflowsSpec
CONSTANTS
  Ids = {1, 2}
  Requests = {p, q}
  PostKeys = {k}
  MaxMissions = 1
  MaxSearches = 2
  Ttl = 1
  MaxEvents = 1
  Chats = {p, q}
  Briefs = {1, 2}
  MaxMishaps = 1
  SupportThreads = {t}
  Handlers = {h, i}
  Workers = {w}
  QueueSize = 1
  maxRetries = 1
  MaxContacts = 3
  MaxTroubles = 1
  Visits = {x, y}
  Addresses = {a}
  Links = {l}
  Allowance = 2
  HitWindow = 1
  CacheTtl = 1
  DayLength = 2
  LastMoment = 3
  Estimate = 2
  Costs = {0, 1, 3}
  Ceiling = 3
  MaxVisits = 3
  Requesters = {p, q}
  Addressees = {c, d}
  Subjects = {s}
  AdminEmails = {c}
  MaxSignIns = 3
  Tenants = {u, v}
  perUserLimit = 1
  globalLimit = 2
  Evaluators = {e}
  Listings = {l}
  MaxCallsPerMissionPerHour = 2
  Hour = 1
  LastTick = 2
CHECK_DEADLOCK FALSE
INVARIANTS MissionsTypeOK SearchesAccounted BriefMakesOneMission EventsAccounted BreakerHonest LimitsExact
PROPERTIES RetryAnsweredAlike DeletedStaysDeleted HuntsStart AccountsKept
