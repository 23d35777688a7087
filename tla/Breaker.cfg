SPECIFICATION FairSpec
CONSTANTS
  Flights = {f1, f2}
  WindowSize = 4
  MinResults = 2
  MaxLosses = 1
INVARIANTS HTypeOK RelapsesBounded
PROPERTIES Recovered Trips
CHECK_DEADLOCK FALSE
