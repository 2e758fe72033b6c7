SPECIFICATION SumSpec
CONSTANTS
  c1 = c1
  c2 = c2
  Clients = {c1, c2}
  Listeners = {}
  Opening = {}
  Operations = {"append", "play", "remove", "replace", "clear", "reorder", "refresh"}
  MaxItems = 2
  MaxRevision = 3
  MaxActs <- OneThenTwo
  MaxOrder = 5
  MaxOpens = 0
  MaxFaults = 1
  MaxDeletions = 1
INVARIANTS AppliedOnce SettledIsCurrent RowsAreTheQueue
PROPERTY ChangesWhatWasSeen
CHECK_DEADLOCK FALSE
