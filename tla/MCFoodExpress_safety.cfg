SPECIFICATION Spec
CONSTANTS
  Orders = {o1}
  MaxAttempts = 2
  Background = {"consumer", "deadline"}
  Callbacks = {}
  MaxFaults = 1
INVARIANTS TypeOK IndInv CourierRequestsAreEarned DebitUnknownIsPursued DeclinedIsNeverCharged DebitIsTraced
PROPERTY ReadyBeforeConclusion ConfirmedWithCourier
CHECK_DEADLOCK FALSE
