SPECIFICATION Spec
CONSTANTS
  f1 = f1  f2 = f2  f4 = f4  n1 = n1  c1 = c1  c2 = c2
  Folder = {f1, f2, f4}
  Note = {n1}
  Client = {c1, c2}
  Root = Root
  Absent = Absent
  Gone = Gone
  Initial <- Chain
  Ops <- BulkAndOthers
INVARIANTS TypeOK OnlyRacesMakeCycles
PROPERTY GoneStaysGone
CHECK_DEADLOCK FALSE
