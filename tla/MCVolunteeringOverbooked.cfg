SPECIFICATION Spec
CONSTANTS
  Managers = {m1, m2}
  Volunteers = {u1, u2}
  Candidates = {}
  MaxCapacity = 1
  EditOps = {"close"}
  NoOne = NoOne
SYMMETRY Symmetry
INVARIANTS
  NeverOverbooked
