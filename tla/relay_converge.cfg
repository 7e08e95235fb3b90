SPECIFICATION FairSpec
CONSTANTS
  c1 = c1  c2 = c2  s1 = s1  s2 = s2  s3 = s3
  u1 = u1  u2 = u2
  Client = {c1, c2}
  Sock = {s1, s2}
  Owner <- TwoSockets
  Update = {u1}
  Readers = {}
  NoClient = NoClient
  Cursors = {}
  Events = {"disconnect", "crash", "send"}
PROPERTY PeersConverge
CHECK_DEADLOCK FALSE
