\* Requests with priorities and deadlines are ranked, resolved, published or removed.
CONSTANTS
  o1 = o1 o2 = o2 o3 = o3 s1 = s1 s2 = s2 k1 = k1 k2 = k2
  cpu = cpu gpu = gpu none = none
  Owners = {o1, o2}
  Sessions = {s1}
  Keys = {k1, k2}
  Resources = {cpu}
  SessionOf <- OneSession
  ResourceOf <- ResourceOfKey
  ResourceLimits <- OneSlot
  MaximumActiveTasks = 3
  MaximumQueuedFlights = 2
  MaximumSubscribers = 3
  NoDeadline = none
  NoProgress = none
  Outcome = {"Succeeded"}
  Priorities = {0, 1}
  Deadlines = {none, 1}
  ProgressReports = {}
  ClosableSessions = {}
  MaxTasks = 2
  MaxGeneration = 1
  MaxClock = 1
SPECIFICATION FairSpec
INVARIANTS
  DispatchIsDecided
PROPERTIES
  PublicationNeedsAuthority
  OnlyWantedWorkStarts
  EveryRequestIsResolved
  CancelledFlightsAreRemoved
