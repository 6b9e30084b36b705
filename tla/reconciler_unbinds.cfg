CONSTANTS
  b1 = b1  b2 = b2  w1 = w1  w2 = w2  v1 = v1  v2 = v2  s1 = s1
  Bindings = {b1}
  Workloads = {w1, w2}
  Labelled = {w1}
  Opaque = {}
  Volatile = {}
  Data = {"d1", "d2"}
  Incomplete = {}
  Provided <- OneSecret
  Provisioned = {}
  AsFiles = {b1}
  Volumes = {v1}
  VolumeName <- OwnVolumes
  Selector = Selector  NoRef = NoRef  NoSecret = NoSecret  NoData = NoData
  Faults = {"update", "services", "workloads"}
  MaxFaults = 1
  Environment = {"create", "delete", "edit", "service", "touch", "restart"}
  MaxEnv = 4
SPECIFICATION Spec
INVARIANTS ProjectedSecretPersisted ReadyMeansProjected
PROPERTY UnbindBeforeRemoval
CHECK_DEADLOCK FALSE
