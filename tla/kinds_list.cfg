CONSTANTS
  c1 = c1  c2 = c2
  Crds = {c1, c2}
  Versions <- TwoVersions
  Registry <- SomeRegistered
  Contents <- TwoVersionContents
  None = None
  Lossy = {c2}
  Unseen = {c2}
  MaxEdits = 3
  MaxFaults = 1
  MaxRestarts = 1
SPECIFICATION FairSpec
INVARIANTS ListMatches RemovalsFollowDeletions DifferencesPending
PROPERTIES KeepsBindable EventuallyListed
CHECK_DEADLOCK FALSE
