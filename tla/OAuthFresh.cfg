\* A freshly started gateway: an upstream call and the proactive loop refresh
\* the account for the first time.
CONSTANTS
  p1 = p1  l1 = l1  d1 = d1
  Proxies = {p1}
  Loops = {l1}
  Listers = {}
  Nobody = Nobody  NoGate = NoGate  NoCred = NoCred
  ReadMayFail = TRUE
  MaxAt = 2
SPECIFICATION Spec
INVARIANTS OneRefresher
