SPECIFICATION FairSpec
CONSTANTS
  Sessions = {0, 1}
  NoSession = NoSession
  Fds = {2}
  NoFd = NoFd
  ShardCount = 2
  QueueCapacity = 1
  MaxPosts <- MCPosts
  MaxStarts = 1
INVARIANTS TypeOK SessionSerialized StopDrains DeafOnlyWhenLostOrRobbed
PROPERTIES StopReturns Served
CHECK_DEADLOCK FALSE
