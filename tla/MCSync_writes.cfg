SPECIFICATION Spec
CONSTANTS
  p1 = p1
  p2 = p2
  u1 = u1
  u2 = u2
  c1 = c1
  Peers = {p1, p2}
  Updates = {u1}
  Collections = {c1}
  AuthorOf <- OneAuthor
  CollectionOf <- OneCollection
  Fickle = {p1}
  MaxFlushes = 1
  MaxInbound = 2
  MaxLinks = 1
  MaxFaults = 1
  MaxRestarts = 1
INVARIANTS TypeOK NoWriteForgotten FlushArmed PendingCountFresh NoEcho
PROPERTY Replicates
CHECK_DEADLOCK FALSE
