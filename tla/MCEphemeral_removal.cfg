SPECIFICATION Spec
CONSTANTS
  a = a
  b = b
  Peers <- ThePeers
  Throttled <- OneThrottled
  Fickle <- OneThrottled
  MaxSequence <- ThreeOfA
  Signed <- OtherSigns
  MaxLinks = 2
INVARIANT UpdatesAreBroadcast
CHECK_DEADLOCK FALSE
