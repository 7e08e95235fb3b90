SPECIFICATION Spec
CONSTANTS
  Notes = {n1}
  Folders = {f1, f2}
  Top = Top
  Gone = Gone
  MaxActs = 2
  MaxTrouble = 1
SYMMETRY MCSymmetry
INVARIANTS
  RestingShellIsCurrent
PROPERTY ListsAreLatest
CHECK_DEADLOCK FALSE
