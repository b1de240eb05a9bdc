\* A capture that finds no slot leaves a flight another capture dispatches.
CONSTANTS
  p1 = p1 p2 = p2 none = none
  Owners = {p1, p2}
  Sessions = {p1, p2}
  Keys <- RequestKeys
  Resources = {cpu}
  SessionOf <- OwnSession
  ResourceOf <- AllOnCpu
  ResourceLimits <- CpuSlots
  MaximumActiveTasks = 4
  MaximumQueuedFlights = 4
  MaximumSubscribers = 2
  NoDeadline = none
  NoProgress = none
  Comparisons = {c}
  Cpu = cpu
  MaxGeneration = 3
  MaxSelections <- ThreeEach
  MaxRevision = 0
SPECIFICATION Spec
INVARIANTS
  DispatchedFlightsHaveARunner
CHECK_DEADLOCK FALSE
