\* Two panes share flights for one slot while the project is edited.
CONSTANTS
  p1 = p1 p2 = p2 none = none
  Owners = {p1, p2}
  Sessions = {p1, p2}
  Keys <- RequestKeys
  Resources = {cpu}
  SessionOf <- OwnSession
  ResourceOf <- AllOnCpu
  ResourceLimits <- OneCpuSlot
  MaximumActiveTasks = 2
  MaximumQueuedFlights = 4
  MaximumSubscribers = 2
  NoDeadline = none
  NoProgress = none
  Comparisons = {c}
  Cpu = cpu
  MaxGeneration = 2
  MaxSelections <- TwoAndOne
  MaxRevision = 1
SPECIFICATION FairSpec
INVARIANTS
  TypeOK
  RunnersHoldTheirFlights
  FollowersAreAnswered
PROPERTIES
  OnlyTheNewestSelectionIsPublished
  EveryJobReturns
CHECK_DEADLOCK FALSE
