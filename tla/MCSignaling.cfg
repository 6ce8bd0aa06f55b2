SPECIFICATION FairSpec
CONSTANTS
  p = p
  q = q
  w1 = w1
  s1 = s1
  s2 = s2
  room = room
  Sockets = {w1}
  Sessions = {s1, s2}
  Rooms = {room}
  Peers = {p, q}
  PeerOf <- MixedPeers
  RoomOf <- OneRoom
  NoRoom = NoRoom
  MaxMessages = 1
  MaxErrors = 1
  MaxDrops = 1
INVARIANTS TypeOK RoomsHoldTheLiving Introduced PolledInOrder NoPollSleeps
PROPERTY Departed
CHECK_DEADLOCK FALSE
