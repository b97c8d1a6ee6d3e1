\* A creator of each kind, two deletions and a refresher of one name.
CONSTANTS
  a1 = a1  n1 = n1  l1 = l1  x1 = x1  d1 = d1  d2 = d2  r1 = r1 
  Nobody = Nobody
  Api = {a1}
  Consoles = {n1}
  Claudes = {l1}
  Codexes = {x1}
  OAuth = {n1, l1, x1}
  Deleters = {d1, d2}
  Refreshers = {r1}
  Restarts = 1
SPECIFICATION Spec
SYMMETRY Alike
CHECK_DEADLOCK FALSE
INVARIANTS AccountHasSecret SecretIsItsOwn OrphanIsExplained
