SPECIFICATION Spec
CONSTANTS
  Orders = {o1}
  Workers = {w1,w2,w3}
  Montants = {20, 40}
  Parts = {}
  Threshold = 3
  MaxFailures = 1
INVARIANTS TypeOK VoidIsFinal RecordedIsDone RefundsAreTold
PROPERTY Promise
