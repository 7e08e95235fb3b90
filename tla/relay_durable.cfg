SPECIFICATION FairSpec
CONSTANTS
  c1 = c1  c2 = c2  s1 = s1  s2 = s2  s3 = s3
  u1 = u1  u2 = u2
  Client = {c1}
  Sock = {s1}
  Owner <- OneSocket
  Update = {u1}
  Readers = {}
  NoClient = NoClient
  Cursors = {c1}
  Events = {"crash", "database", "delete", "debounce"}
PROPERTIES DurableGrows ScheduledReachesDisk
CHECK_DEADLOCK FALSE
