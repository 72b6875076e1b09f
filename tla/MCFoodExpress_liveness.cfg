SPECIFICATION FairSpec
CONSTANTS
  Orders = {o1}
  MaxAttempts = 1
  Background = {"consumer", "deadline"}
  Callbacks = {}
  MaxFaults = 1
PROPERTY EveryOrderConcludes UnknownDebitIsSettled ConclusionIsPublished
CHECK_DEADLOCK FALSE
