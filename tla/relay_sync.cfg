SPECIFICATION Spec
CONSTANTS
  c1 = c1  c2 = c2  s1 = s1  s2 = s2  s3 = s3
  u1 = u1  u2 = u2
  Client = {c1, c2}
  Sock = {s1, s2, s3}
  Owner <- ThreeSockets
  Update = {u1}
  Readers = {c2}
  NoClient = NoClient
  Cursors = {}
  Events = {"send", "disconnect", "redis"}
INVARIANTS SyncedPeersHaveDoc AcceptedInDoc RestingPeersAgree NoReaderContent

CHECK_DEADLOCK FALSE
