SPECIFICATION HSpec
CONSTANTS
  Requests = {r1, r2}
  Rate = 1
  Burst = 4
  Cost = 2
  Ttl = 5
  MaxDelay = 1
  Grace = 1
  MaxTime = 7
  Windows = {day1, day2, month}
  WindowsAt <- MCWindowsAt
  Ends <- MCEnds
  Limit <- MCLimit
  NoTime = NoTime
  day1 = day1 day2 = day2 month = month r1 = r1 r2 = r2
SYMMETRY MCSymmetry
INVARIANTS HTypeOK RateBounded WindowBounded
CHECK_DEADLOCK FALSE
