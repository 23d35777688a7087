SPECIFICATION Spec
CONSTANTS
  base = base
  root = root
  id = id
  LastDay = 5
  MonthOf <- MCMonthOf
  FirstPartitions = {0, 1}
  Paths = {base, root, id}
  Relative <- MCRelative
  MaxRows = 1
  MaxFaults = 2
INVARIANTS TypeOK StraysMissedTwice StatsComplete UpIsMigrated RefusedOnlyIfStuck
CHECK_DEADLOCK FALSE
