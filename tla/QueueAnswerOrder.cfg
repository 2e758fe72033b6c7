SPECIFICATION SyncSpec
CONSTANTS
  c1 = c1
  c2 = c2
  Clients = {c1, c2}
  Listeners = {c1}
  Opening = {c1}
  Operations = {"append"}
  MaxItems = 2
  MaxRevision = 2
  MaxActs <- TheOtherTwice
  MaxOrder = 4
  MaxOpens = 1
  MaxFaults = 0
  MaxDeletions = 0
PROPERTY KeepsNewest
CHECK_DEADLOCK FALSE
