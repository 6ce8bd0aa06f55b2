SPECIFICATION FairSpec
CONSTANTS
  n1 = n1
  n2 = n2
  Peers = {n1, n2}
  Urls = 2
  Preference <- Mixed
  AutoReconnect = {n1}
  MaxPeers = 1
  Fickle = {n1}
  Unreliable = {0, 1}
  MaxConnects = 3
  MaxFaults = 2
INVARIANTS TypeOK OneTransport DisposedIsClosed KeepsTrying
PROPERTY FirstMeeting
CHECK_DEADLOCK FALSE
