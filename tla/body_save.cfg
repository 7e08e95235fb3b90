SPECIFICATION Spec
CONSTANTS
  t1 = t1  t2 = t2  a1 = a1
  u1 = u1  u2 = u2  u3 = u3
  Tab = {t1, t2}
  Update = {u1, u2, u3}
  Asset = {a1}
  Inserts <- Embeds
  Deletes <- Removes
  NoAsset = NoAsset
  NoUpdate = NoUpdate
  Grace = 1
  MaxVersion = 1
  Events = {"fail", "close"}
SYMMETRY TabSymmetry
INVARIANTS SavedMeansStored VersionNamesBody
PROPERTY ListedSurvivesGrace
CHECK_DEADLOCK FALSE
