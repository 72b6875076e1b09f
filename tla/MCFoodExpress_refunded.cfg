SPECIFICATION Spec
CONSTANTS
  Orders = {o1}
  MaxAttempts = 1
  Background = {"consumer", "deadline"}
  Callbacks = {}
  MaxFaults = 1
INVARIANT ConfirmedKeepsItsDebit
CHECK_DEADLOCK FALSE
