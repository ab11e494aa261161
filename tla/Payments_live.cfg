CONSTANTS
  c1 = c1  c2 = c2  c3 = c3  o1 = o1  o2 = o2
  Calls = {c1, c2, c3}
  Orders = {o1, o2}
  NoId = NoId
  BadId = BadId
  OrderOf <- MCOrderOfEach
  PaymentIds = {p1, p2, p3, p4}
  MaxRetries = 1
  MaxRestarts = 1
  Deletable = {o1}
  Faults = {"network", "crash"}
  Unset = Unset
SPECIFICATION FairSpec
PROPERTIES EveryCallEnds
