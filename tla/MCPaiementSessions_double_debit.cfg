SPECIFICATION Spec
CONSTANTS
  Orders = {o1}
  Workers = {w1,w2}
  Montants = {20}
  Parts = {}
  Threshold = 3
  MaxFailures = 0
INVARIANT NoDoubleDebit
SYMMETRY Symmetry
