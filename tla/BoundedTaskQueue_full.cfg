SPECIFICATION Spec
CONSTANTS
  p1 = p1
  p2 = p2
  NoTask = NoTask
  Producers <- MCProducers
  Word <- MCWord
  Capacity = 2
  MaxTasks = 1
PROPERTY RejectsOnlyWhenFull
CHECK_DEADLOCK FALSE
