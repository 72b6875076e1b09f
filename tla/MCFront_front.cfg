SPECIFICATION FairSpec
CONSTANTS
  Posts = {p1,p2}
  Trackings = {t1}
  Attempts = 2
  Pool <- PoolSizes
  Threads = 1
  Connections = 2
  Tasks = {"relay"}
INVARIANTS TypeOK AnswerTellsTheOrder StandstillNeedsAbandoned
CHECK_DEADLOCK FALSE
PROPERTY EveryRequestEnds
