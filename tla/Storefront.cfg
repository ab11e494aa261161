CONSTANTS
  Items <- ItemRows
  OrderOf <- MCOrderOf
  Null = Null
  Orders = {1, 2, 3}
  Limits = {1, 2}
  WalkLimits = {2}
  DateFrom <- MCDateFrom
  Milli <- MCMilli
  StartTime = 2
  MaxTime = 3
  NoCursor = NoCursor
  BatchSize = 2
  Length <- MCLength
  ItemOrder <- MCItemOrder
  MaxRuns = 2
  MaxPlaced = 1
  Bare = {}
  MayFail = TRUE
  IdOf <- MCIdOf
SPECIFICATION Spec
INVARIANTS StorefrontInv NoOrderTwice OnlyCutsAreMissed ToldPagesFit LoadedAreAligned SeededIsComplete RolesFollowScopes
PROPERTIES SeededOnce EveryRunEnds
CHECK_DEADLOCK FALSE
