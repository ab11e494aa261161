CONSTANTS
  Orders = {o1, o2}
  Messages = {m1, m2}
  MaxAttempts = 1
  AttemptCap = 2
  SimulateErrors = {FALSE, TRUE}
  Deletable = {o1}
  Payable = {o1}
  Faults = {"crash", "channel", "database"}
  Unset = Unset
  GeneratedId = GeneratedId
SPECIFICATION FairSpec
INVARIANTS SafetyInv ProcessedMatchesStatus DeadLettersAreExhausted
PROPERTIES ImplementsOrderLife RetriesEnd DecidedUnlessLost
