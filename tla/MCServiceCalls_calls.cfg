SPECIFICATION FairSpec
CONSTANTS
  FailureThreshold = 2
  ResetTimeout = 6
  Threads = {t1,t2,t3}
  MaxConcurrent = 2
  MaxAttempts = 2
  Timeout = 2
  Backoff = 1
  Rejections = TRUE
INVARIANTS TypeOK HalfOpenHasProbe OneProbe SlotsAreHeld
PROPERTY OpenEnds
