SPECIFICATION FairSpec
CONSTANTS
  a = a
  b = b
  Peers <- ThePeers
  Throttled <- OneThrottled
  Fickle <- OneThrottled
  MaxSequence <- ThreeOfA
  Signed <- OtherSigns
  MaxLinks = 2
INVARIANTS TypeOK NeverBackwards AudienceAgrees UpdatesArrive
PROPERTY DepartedFade
CHECK_DEADLOCK FALSE
