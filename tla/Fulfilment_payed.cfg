CONSTANTS
  Orders = {o1}
  Messages = {m1, m2}
  MaxAttempts = 1
  AttemptCap = 2
  SimulateErrors = {FALSE}
  Deletable = {}
  Payable = {o1}
  Faults = {}
  Unset = Unset
  GeneratedId = GeneratedId
SPECIFICATION Spec
PROPERTIES PayedStaysPayed
