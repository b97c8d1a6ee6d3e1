\* A request and an owner; the user signs in on the web.
CONSTANTS
  k1 = k1  k2 = k2  k3 = k3  q1 = q1  o1 = o1  g1 = g1  g2 = g2  v1 = v1
  NoKey = NoKey
  Keys = {k1, k2, k3}
  Requests = {q1}
  Owners = {o1}
  Logins = {}
  Rotating = {}
  Visits = {v1}
  TTL = 2
SPECIFICATION Spec
INVARIANTS RevokedIsOut
