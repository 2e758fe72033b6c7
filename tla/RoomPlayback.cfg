CONSTANTS
  t1 = t1
  t2 = t2
  Tracks = {t1, t2}
  MaxRoomQueue = 3
  MaxMs = 2
  Clients = {c1, c2}
  FirstQueue <- TwiceInARow
  UserCommands <- EveryCommand
  MaxRevision = 5
  MaxRooms = 2
  MaxClientRevision = 3
  MaxFlights = 3
  MaxDrops = 1
  MaxInbox = 2
SPECIFICATION SumSpec
INVARIANTS SnapshotIsSound 
PROPERTIES EndCountsOnce PlayheadContinuity  ClientFollowsTheRoom
CHECK_DEADLOCK FALSE
