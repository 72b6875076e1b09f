SPECIFICATION Spec
CONSTANTS
  Orders = {o1}
  MaxAttempts = 1
  Background = {"consumer", "deadline"}
  Callbacks = {}
  MaxFaults = 0
PROPERTY ConclusionIsFinal
CHECK_DEADLOCK FALSE
