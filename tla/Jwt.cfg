SPECIFICATION HSpec
CONSTANTS
  Keys = {k1, k2}
  Flights = {f1, f2}
  Nodes = {n1, n2}
  Polls = 2
  MaxEpoch = 1
  MaxFaults = 1
  MaxLapses = 1
  NoJwt = NoJwt
  NoNode = NoNode
SYMMETRY MCSymmetry
INVARIANTS HTypeOK ExchangesBounded StaleOnlyIfMissed
CHECK_DEADLOCK FALSE
