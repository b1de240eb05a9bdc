\* Three panes of two sessions share and cancel work; a session may close.
CONSTANTS
  o1 = o1 o2 = o2 o3 = o3 s1 = s1 s2 = s2 k1 = k1 k2 = k2
  cpu = cpu gpu = gpu none = none
  Owners = {o1, o2, o3}
  Sessions = {s1, s2}
  Keys = {k1, k2}
  Resources = {cpu}
  SessionOf <- SessionOfOwner
  ResourceOf <- ResourceOfKey
  ResourceLimits <- OneSlot
  MaximumActiveTasks = 2
  MaximumQueuedFlights = 2
  MaximumSubscribers = 2
  NoDeadline = none
  NoProgress = none
  Outcome = {"Succeeded"}
  Priorities = {0}
  Deadlines = {none}
  ProgressReports <- TwoReports
  ClosableSessions = {s2}
  MaxTasks = 3
  MaxGeneration = 1
  MaxClock = 0
SPECIFICATION Spec
INVARIANTS
  TypeOK
  EligibleTasksAreCurrent
  EveryTaskIsAccountedFor
  SubscriptionsAreMutual
  CancelledIffUnobserved
  IndexedIffShareable
  SlotsMatchRunningFlights
  OneRequestPerOwner
  SubscribersSeeTheSameProgress
  AdmissionIsBounded
SYMMETRY PanesAndRecipes
