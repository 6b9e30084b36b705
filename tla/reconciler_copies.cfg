CONSTANTS
  b1 = b1  b2 = b2  w1 = w1  w2 = w2  v1 = v1  v2 = v2  s1 = s1
  Bindings = {b1}
  Workloads = {w1, w2}
  Labelled = {w1}
  Opaque = {w2}
  Volatile = {w1, w2}
  Data = {"d1", "d2"}
  Incomplete = {"d2"}
  Provided <- OneSecret
  Provisioned = {}
  AsFiles = {b1}
  Volumes = {v1}
  VolumeName <- OwnVolumes
  Selector = Selector  NoRef = NoRef  NoSecret = NoSecret  NoData = NoData
  Faults = {"update", "applications", "services", "secrets", "workloads"}
  MaxFaults = 1
  Environment = {"create", "delete", "edit", "annotate", "service", "invalid", "touch", "recreate", "restart"}
  MaxEnv = 3
SPECIFICATION Spec
INVARIANTS TypeOK Coherent StatusSecretPersisted
PROPERTIES FinalizerGuardsProjection NoStaleOverwrite
CHECK_DEADLOCK FALSE
