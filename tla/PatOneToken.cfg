SPECIFICATION HSpec
CONSTANTS
  app = app
  alice = alice
  NoEntry = NoEntry
  NoQuota = NoQuota
  NoReq = NoReq
  NoTok = NoTok
  Tokens = {t1}
  AppOf <- MCAppOf
  OwnerOf <- MCOwnerOf
  DefaultQuota <- MCQuota
  Changed <- MCChanged
  Values = {0, 1}
  Handlers = {h1, h2}
  Requests = {r1}
  MaxPerApp = 1
  MaxPerUser = 1
  MaxFaults = 1
  Ops = {"issue", "revoke", "bulk", "event", "bat04", "quota", "getmeta"}
SYMMETRY MCSymmetry
INVARIANTS HTypeOK StaleOnlyIfRaced AcceptedBeganOpen RevokedAudited QuotaAgrees
CHECK_DEADLOCK FALSE
