SPECIFICATION PlanSpec
CONSTANTS
  f1 = f1  f2 = f2  f3 = f3  f4 = f4  c1 = c1  c2 = c2
  Folder = {f1, f2, f3, f4}
  Client = {c1, c2}
  Grant <- Rights
  NameOf <- SameNames
  Order <- InOrder
  Start <- Nested
  Root = Root
  Absent = Absent
  NoPlan = NoPlan
  MaxWrites = 2
SYMMETRY Tabs
INVARIANTS DescendantAgrees PathsLeadBack EverythingShown
PROPERTY FreshDropLands

CHECK_DEADLOCK FALSE
