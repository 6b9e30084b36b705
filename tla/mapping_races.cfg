CONSTANTS
  b1 = b1  b2 = b2  p1 = p1  p2 = p2  p3 = p3
  Bindings = {b1, b2}
  Existing = {b1}
  Spec1 = {b1}
  Version <- OneVersion
  Mappings <- Mixed
  Default = Default  None = None
  Prompt = FALSE
  Patient = FALSE
  Messages = {"m1"}  Repeats = TRUE
  Faults = {"webhook", "workload"}
  MaxUpdates = 2
  MaxFaults = 2
SPECIFICATION FairSpec
INVARIANTS NeverLost
PROPERTIES RebindCompletes
CHECK_DEADLOCK FALSE
