CONSTANTS
  b1 = b1  b2 = b2  p1 = p1  p2 = p2  p3 = p3
  Bindings = {b1}
  Existing = {b1}
  Spec1 = {b1}
  Version <- OneVersion
  Mappings <- Wildcards
  Default = Default  None = None
  Prompt = FALSE
  Patient = TRUE
  Messages = {"m1"}  Repeats = FALSE
  Faults = {}
  MaxUpdates = 1
  MaxFaults = 0
SPECIFICATION Spec
INVARIANTS FollowsMapping
CHECK_DEADLOCK FALSE
