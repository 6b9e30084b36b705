CONSTANTS
  b1 = b1  b2 = b2  w1 = w1  w2 = w2  v1 = v1  v2 = v2  s1 = s1
  Bindings = {b1}
  Workloads = {w1}
  Labelled = {w1}
  Opaque = {}
  Volatile = {}
  Data = {"d1"}
  Incomplete = {}
  Provided <- OneSecret
  Provisioned = {}
  AsFiles = {b1}
  Volumes = {v1}
  VolumeName <- OwnVolumes
  Selector = Selector  NoRef = NoRef  NoSecret = NoSecret  NoData = NoData
  Faults = {}
  MaxFaults = 0
  Environment = {"create", "delete"}
  MaxEnv = 2
SPECIFICATION Spec
INVARIANTS NoOrphan
CHECK_DEADLOCK FALSE
