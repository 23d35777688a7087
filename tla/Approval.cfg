SPECIFICATION HSpec
CONSTANTS
  alice = alice
  Apps = {a1}
  OwnerOf <- MCOwnerOf
  Scopes = {read, write}
  Tokens = {t1, t2, t3}
  Handlers = {h1, h2}
  MaxPerApp = 1
  MaxPerUser = 2
  None = None
SYMMETRY MCSymmetry
INVARIANTS HTypeOK DecisionsBounded TokensAsDecided ScopesWereShown TokensBounded UsedIsRouted
CHECK_DEADLOCK FALSE
