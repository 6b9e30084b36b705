CONSTANTS
  b1 = b1  b2 = b2  p1 = p1  p2 = p2  p3 = p3
  Bindings = {b1, b2}
  Existing = {b1}
  Spec1 = {b1}
  Version <- OneVersion
  Mappings <- Wildcards
  Default = Default  None = None
  Prompt = TRUE
  Patient = TRUE
  Messages = {"m1", "m2"}  Repeats = FALSE
  Faults = {"webhook", "update", "workload"}
  MaxUpdates = 3
  MaxFaults = 2
SPECIFICATION Spec
INVARIANTS FollowsMapping AnnotatedByOwn
CHECK_DEADLOCK FALSE
