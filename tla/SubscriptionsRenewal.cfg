CONSTANTS
  first = first
  left = left
  right = right
  None = None
  Payments = {first}
  Requests = {left, right}
  Term <- MCTerm
  Trial = 1
  Grace = 1
  Windows = {1}
  Horizon = 3
  MaxChanges = 0
  MaxFailures = 0
SPECIFICATION MCSpec
INVARIANTS
  RenewalStands
SYMMETRY Alike
CHECK_DEADLOCK FALSE
