\* A project between the free plan, the starter plan and one payment.
SPECIFICATION Spec
CONSTANTS
  a1 = a1
  c1 = c1
  w1 = w1
  x1 = x1
  f1 = f1
  u1 = u1
  u2 = u2
  Apis = {a1}
  Consoles <- MCConsoles
  Updaters <- MCUpdaters
  Frees = {f1}
  Upstreams <- MCUpstreams
  Casts <- MCCasts
  FreeObjects = 1
  StarterObjects = 2
  FreeRPM = 2
  DefaultRPM = 2
  FreeTokens = 1
  Window = 2
  UnifiGrace = 1
  MaxTokens = 1
  MaxObjects = 3
  MaxUsed = 3
  MaxPayments = 1
  MaxTime = 2
SYMMETRY MCSymmetry
CHECK_DEADLOCK FALSE
INVARIANTS OvershootBounded CapOvershootBounded BurstBelowTwice PaidLostOnlyByRace
