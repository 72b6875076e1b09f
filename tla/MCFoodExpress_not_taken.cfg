SPECIFICATION Spec
CONSTANTS
  Orders = {o1}
  MaxAttempts = 1
  Background = {"consumer", "deadline"}
  Callbacks = {}
  MaxFaults = 0
INVARIANT NotTakenMeansNotAccepted
CHECK_DEADLOCK FALSE
