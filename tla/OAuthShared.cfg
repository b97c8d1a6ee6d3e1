\* A freshly started gateway: an upstream call, the proactive loop and a model
\* discovery.
CONSTANTS
  p1 = p1  l1 = l1  d1 = d1
  Proxies = {p1}
  Loops = {l1}
  Listers = {d1}
  Nobody = Nobody  NoGate = NoGate  NoCred = NoCred
  ReadMayFail = TRUE
  MaxAt = 3
SPECIFICATION Spec
INVARIANTS NoReplay NothingDropped RetryIsNewer MutexInUse
PROPERTIES DurableForward
