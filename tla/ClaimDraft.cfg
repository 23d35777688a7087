SPECIFICATION HSpec
CONSTANTS
  Ops = {o1}
  Bases = {b1, b2}
  Patterns = {pa, px, py, pas, pg, pba, pw}
  Contents = {c1, c2}
  Literal <- MCLiteral
  Endpoints <- MCEndpoints
  Created <- MCCreated
  Patches <- MCPatches
  Attempts = 2
  None = None
  MaxApis = 1
  MaxFaults = 0
  Params = {"{x}", "{y}"}
  Text <- MCText
  Method <- MCMethod
  Upstream <- MCUpstream
  Lower <- MCLower
  Requests <- MCRequests
  b1 = b1 b2 = b2 c1 = c1 c2 = c2
  pa = pa px = px py = py pas = pas pg = pg pba = pba pw = pw
INVARIANTS DraftIsNotRouted
CHECK_DEADLOCK FALSE
