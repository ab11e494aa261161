CONSTANTS
  Requests = {r1, r2, r3, r4}
  Users = {u1, u2}
  FileIds = {f1, f2}
  Faults = {"storage", "database", "crash"}
  NoId = NoId
  BadId = BadId
  Unset = Unset
SPECIFICATION Spec
INVARIANTS SafetyInv AvatarIsShowable
PROPERTIES OnlyItsUserChangesAnAvatar
SYMMETRY Symmetry
