CONSTANTS
  b1 = b1  b2 = b2  c1 = c1  c2 = c2  extra = extra  s1 = s1  s2 = s2  s3 = s3
  Bindings = {b1, b2}
  Containers = {c1, c2}
  Names = {c1, c2, extra}
  Secrets = {s1, s2, s3}
  NoSecret = NoSecret
  Setups <- MCSetups
SPECIFICATION Spec
INVARIANTS NoDuplicates  UnbindRemoves
PROPERTIES OthersKept ReprojectionIdle
CHECK_DEADLOCK FALSE
