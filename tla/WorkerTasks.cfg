\* Two analyses may run beside each other until playback and rendering ask
\* for their share; one service closes or crashes and another follows.
CONSTANTS
  light = light
  heavy = heavy
  Keys = {light, heavy}
  MemoryOf <- LightAndHeavy
  CpuSlots = 3
  MemoryUnits = 4
  WorkerSlots = 2
  CpuReserve <- OneEach
  MemoryReserve <- OneToRender
  MaximumQueuedJobs = 2
  MaximumRuns = 2
  Pressures <- NoneOrBoth
  MaximumReports = 1
  MaximumRestarts = 1
  Endings = {"Closed", "Crashed"}
SPECIFICATION FairSpec
INVARIANTS
  TypeOK
  WorkersFitTheMachine
  WorkRespectsReserves
  CancellationsReachTheWorker
  OneWorkerPerKey
  CompletionsAreReceipted
PROPERTIES
  PublishedIsFinal
  EveryTaskEnds
CHECK_DEADLOCK FALSE
