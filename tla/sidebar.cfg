SPECIFICATION Spec
CONSTANTS
  f1 = f1  f2 = f2  f3 = f3
  Folders = {f1, f2, f3}
  Texts = {t1, t2}
  Nothing = Nothing
  Root = Root
  Absent = Absent
  Initial <- OneInOther
  MaxActs = 4
  MaxTrouble = 1
SYMMETRY TextSymmetry
INVARIANTS
  DragIsTrue
  TypedIsKept
  CreatedOnce
  SettledBarIsAccurate
PROPERTY DroppedIsRevealed
CHECK_DEADLOCK FALSE
