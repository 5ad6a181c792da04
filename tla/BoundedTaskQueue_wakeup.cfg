SPECIFICATION FairSpec
CONSTANTS
  p1 = p1
  p2 = p2
  NoTask = NoTask
  Producers <- MCProducers
  Word <- MCWord
  Capacity = 1
  MaxTasks = 1
PROPERTY ParkedWorkerWakes
CHECK_DEADLOCK FALSE
