CONSTANTS
  b1 = b1  b2 = b2  w1 = w1  w2 = w2  v1 = v1  v2 = v2  s1 = s1
  Bindings = {b1}
  Workloads = {w1, w2}
  Labelled = {w1, w2}
  Opaque = {}
  Volatile = {w2}
  Data = {"d1"}
  Incomplete = {}
  Provided <- OneSecret
  Provisioned = {}
  AsFiles = {b1}
  Volumes = {v1}
  VolumeName <- OwnVolumes
  Selector = Selector  NoRef = NoRef  NoSecret = NoSecret  NoData = NoData
  Faults = {"update", "applications", "services", "secrets", "workloads"}
  MaxFaults = 1
  Environment = {"create", "delete", "edit", "service", "touch", "recreate", "restart"}
  MaxEnv = 3
SPECIFICATION FairSpec
PROPERTIES DeletionCompletes NamedSettles SelectorSettles
CHECK_DEADLOCK FALSE
