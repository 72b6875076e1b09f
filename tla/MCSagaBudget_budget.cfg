SPECIFICATION Spec
CONSTANTS
  ReadTimeout = 10
  MaxAttempts = 3
  BaseDelay = 1
  GatewayTimeout = 80
INVARIANT GatewayWaitsForTheSaga
CHECK_DEADLOCK FALSE
