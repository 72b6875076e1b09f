SPECIFICATION Spec
CONSTANTS
  Orders = {o1,o2}
  Workers = {w1}
  Montants = {4, 10, 25, 36}
  Parts = {4, 10, 15, 20}
  Threshold = 3
  MaxFailures = 0
INVARIANTS BooksMatch StatutMatchesBalance
PROPERTY Promise
