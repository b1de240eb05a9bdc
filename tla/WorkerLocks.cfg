\* Services close in good order, and every lease is dropped.
CONSTANTS
  light = light
  heavy = heavy
  Keys = {light, heavy}
  MemoryOf <- LightAndHeavy
  CpuSlots = 3
  MemoryUnits = 4
  WorkerSlots = 2
  CpuReserve <- OneEach
  MemoryReserve <- OneToRender
  MaximumQueuedJobs = 2
  MaximumRuns = 2
  Pressures <- NoneOrBoth
  MaximumReports = 1
  MaximumRestarts = 1
  Endings = {"Closed"}
SPECIFICATION Spec
INVARIANT LockedKeysAreBeingComputed
CHECK_DEADLOCK FALSE
