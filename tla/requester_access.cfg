SPECIFICATION FairSpec
CONSTANTS
  u1 = u1
  u2 = u2
  service = service
  secret = secret
  w1 = w1
  w2 = w2
  Users = {u1, u2}
  Operator = operator
  Auth = "token"
  NoUser = nobody
  Sources <- MCSources
  Mapping = mapping
  Workloads = {w1, w2}
  Selector = selector
  Policy <- MCPolicy
  Changing <- MCChanging
  Faults = {"review", "lookup", "get", "secrets", "workloads", "update"}
  MaxFaults = 1
  Environment = {"create", "update", "delete", "grant", "revoke", "mapping"}
  MaxEnv = 3
INVARIANTS TypeOK RequesterIsAuthor
PROPERTIES ChangesReviewed PermittedSettles RefusedDeletionCompletes
CHECK_DEADLOCK FALSE
