SPECIFICATION HFairSpec
CONSTANTS
  app = app
  alice = alice
  NoEntry = NoEntry
  NoQuota = NoQuota
  NoReq = NoReq
  NoTok = NoTok
  Tokens = {t1}
  AppOf <- MCAppOf
  OwnerOf <- MCOwnerOf
  DefaultQuota <- MCQuota
  Changed <- MCChanged
  Values = {0, 1}
  Handlers = {h1}
  Requests = {r1}
  MaxPerApp = 2
  MaxPerUser = 2
  MaxFaults = 1
  Ops = {"issue", "revoke", "bulk", "event", "bat03", "bat04", "quota", "getmeta"}
PROPERTIES ImplementsAccess ExpiredIsMarked CallAnswered
CHECK_DEADLOCK FALSE
