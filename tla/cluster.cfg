SPECIFICATION ClusterSpec
CONSTANTS
  g1 = g1  g2 = g2  r1 = r1  r2 = r2
  NoWorker = NoWorker
  Workers = {w1, w2}
  Tasks = {t1}
  MaxCasts = 2
  MaxFaults = 1
  MaxRestarts = 1
  Gets <- TwoGets
  Rooms <- TwoRooms
  RoomMaps <- SameOrNot
  PrerunNodes = 1
  MaxNodes = 2
  MaxLaunches = 3
  MaxFailures = 1
CHECK_DEADLOCK FALSE
INVARIANTS
  TaskNotSplit
  ScheduleConsistent
  PoolConsistent
PROPERTIES
  HoldingEnds
  PoolServes
