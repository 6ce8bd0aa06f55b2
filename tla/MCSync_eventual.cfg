SPECIFICATION FairSpec
CONSTANTS
  p1 = p1
  p2 = p2
  u1 = u1
  u2 = u2
  c1 = c1
  Peers = {p1, p2}
  Updates = {u1}
  Collections = {c1}
  AuthorOf <- OneAuthor
  CollectionOf <- OneCollection
  Fickle = {}
  MaxFlushes = 1
  MaxInbound = 1
  MaxLinks = 2
  MaxFaults = 0
  MaxRestarts = 0
PROPERTIES
  EventualConsistency
CHECK_DEADLOCK FALSE
