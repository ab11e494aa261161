CONSTANTS
  r1 = r1  r2 = r2  r3 = r3  u1 = u1  p1 = p1  p2 = p2  k1 = k1  k2 = k2
  NoOne = NoOne  Unset = Unset
  Requests = {r1, r2}
  Users = {u1}
  Catalog = {p1, p2}
  InitialStock <- MCStock
  PoolSize = 2
  Bodies <- RepeatedBodies
SPECIFICATION Spec
INVARIANTS NeverOversold
