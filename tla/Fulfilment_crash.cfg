CONSTANTS
  Orders = {o1}
  Messages = {m1}
  MaxAttempts = 1
  AttemptCap = 2
  SimulateErrors = {FALSE}
  Deletable = {}
  Payable = {o1}
  Faults = {"crash"}
  Unset = Unset
  GeneratedId = GeneratedId
SPECIFICATION FairSpec
PROPERTIES EveryOrderIsDecided
