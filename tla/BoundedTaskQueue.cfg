SPECIFICATION FairSpec
CONSTANTS
  p1 = p1
  p2 = p2
  NoTask = NoTask
  Producers <- MCProducers
  Word <- MCWord
  Capacity = 2
  MaxTasks = 2
INVARIANTS TypeOK RingInv SlotReusable NoSlotRace DrainedBeforeExit
PROPERTIES ImplementsTaskQueue PushReturns AwakeWorkerRuns
CHECK_DEADLOCK FALSE
