SPECIFICATION FairSpec
CONSTANTS
  Topics = {t1, t2}
  NoTopic = NoTopic
  Publishers = {p1, p2}
  MaxMessages = 4
  MaxStores = 2
INVARIANTS IdsIncrease StopSyncs
PROPERTIES SyncCatchesUp
CHECK_DEADLOCK FALSE
