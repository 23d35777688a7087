SPECIFICATION Spec
CONSTANTS
  app = app
  alice = alice
  NoEntry = NoEntry
  NoQuota = NoQuota
  NoReq = NoReq
  NoTok = NoTok
  Tokens = {t1}
  AppOf <- MCAppOf
  OwnerOf <- MCOwnerOf
  DefaultQuota <- MCQuota
  Changed <- MCChanged
  Values = {0, 1}
  Handlers = {h1, h2}
  Requests = {}
  MaxPerApp = 2
  MaxPerUser = 2
  MaxFaults = 0
  Ops = {"issue", "revoke", "bat04"}
PROPERTIES RevokedIsFinal
CHECK_DEADLOCK FALSE
