SPECIFICATION FairSpec
CONSTANTS
  t1 = t1  t2 = t2  a1 = a1
  u1 = u1  u2 = u2  u3 = u3
  Tab = {t1, t2}
  Update = {u1, u2}
  Asset = {}
  Inserts <- Nothing
  Deletes <- Keeps
  NoAsset = NoAsset
  NoUpdate = NoUpdate
  Grace = 1
  MaxVersion = 0
  Events = {"lose"}
PROPERTIES DirtyIsSaved MirrorConverges
CHECK_DEADLOCK FALSE
