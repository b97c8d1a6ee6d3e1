\* Two callers of one slug.
CONSTANTS
  p1 = p1
  p2 = p2
  Callers <- MCCallers
  Accounts <- MCAccounts
  Models = {}
  NoModel = NoModel
  MaxRoutes = 2
SPECIFICATION Spec
SYMMETRY MCSymmetry
CHECK_DEADLOCK FALSE
INVARIANTS AskedIsKept WeightsFitPreset
