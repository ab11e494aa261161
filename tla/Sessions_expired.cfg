CONSTANTS
  Requests = {r1, r2}
  Users = {u1}
  AccessLife = 1
  RefreshLife = 2
  MaxTime = 2
  Faults = {}
  Unset = Unset
SPECIFICATION Spec
PROPERTIES ExpiredIsExchanged
SYMMETRY Symmetry
