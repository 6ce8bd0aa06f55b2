SPECIFICATION FairSpec
CONSTANTS
  t1 = t1
  Peers = {1, 2}
  Nobody = Nobody
  Tasks = {t1}
  MaxLinks = 2
  MaxTicks = 2
  MaxCrashes = 1
INVARIANTS TypeOK OneLeader FollowersWatch RunnersLead
PROPERTY GoneLeadersReplaced
CHECK_DEADLOCK FALSE
