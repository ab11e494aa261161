CONSTANTS
  Requests = {r1, r2, r3}
  Users = {u1, u2}
  AccessLife = 1
  RefreshLife = 2
  MaxTime = 2
  Faults = {"database", "crash"}
  Unset = Unset
SPECIFICATION Spec
INVARIANTS SafetyInv StaleIsRefused SessionsEnd
PROPERTIES EndedForGood
SYMMETRY Symmetry
