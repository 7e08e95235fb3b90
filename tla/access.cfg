SPECIFICATION Spec
CONSTANTS
  ann = ann  bob = bob
  n1 = n1  n2 = n2
  f1 = f1  f2 = f2  f3 = f3
  User = {ann, bob}
  Note = {n1, n2}
  Folder = {f1, f2, f3}
  None = None
  MaxDepth = 2
  TTL = 1
  MaxRequests = 2
  MaxClock = 3
  Seeds <- SmallSeeds
  Ops <- Roles
INVARIANTS TypeOK DecisionHadBasis WritesAreRightful ListedCanBeOpened OwnSectionIsOwned
           StaleRightsOnlyOnOldConnections
CHECK_DEADLOCK FALSE
