SPECIFICATION FairSpec
CONSTANTS
  None = None
  s1 = s1
  s2 = s2
  s3 = s3
  p1 = p1
  p2 = p2
  u1 = u1
  u2 = u2
  Users = {u1, u2}
  User <- MCUser
  Sockets = {s1, s2, s3}
  Processes = {p1, p2}
  Process <- MCProcess
  PoolSize = 1
  MaxMessages = 2
INVARIANTS
  TypeOK
  SeenInHistory
  BroadcastReaches
  ConnectionsReturned
PROPERTIES
  TurnsEnd
\* Clients may send nothing more.
CHECK_DEADLOCK FALSE
