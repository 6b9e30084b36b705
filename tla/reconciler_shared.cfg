CONSTANTS
  b1 = b1  b2 = b2  w1 = w1  w2 = w2  v1 = v1  v2 = v2  s1 = s1
  Bindings = {b1, b2}
  Workloads = {w1}
  Labelled = {w1}
  Opaque = {}
  Volatile = {}
  Data = {"d1"}
  Incomplete = {}
  Provided <- OneSecret
  Provisioned = {b2}
  AsFiles = {b1, b2}
  Volumes = {v1, v2}
  VolumeName <- OwnVolumes
  Selector = Selector  NoRef = NoRef  NoSecret = NoSecret  NoData = NoData
  Faults = {"workloads"}
  MaxFaults = 1
  Environment = {"create", "delete"}
  MaxEnv = 3
SPECIFICATION Spec
INVARIANTS Isolated Unbound
PROPERTIES OneVolumePerWrite ImplementsContract
CHECK_DEADLOCK FALSE
