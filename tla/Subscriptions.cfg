CONSTANTS
  first = first
  left = left
  right = right
  None = None
  Payments = {first}
  Requests = {left, right}
  Term <- MCTerm
  Trial = 1
  Grace = 1
  Windows = {1}
  Horizon = 3
  MaxChanges = 1
  MaxFailures = 1
SPECIFICATION MCSpec
INVARIANTS
  ActivatedOnce
  PaidIsActivated
  NoAccessBeyondGrace
  RemindedOnce
PROPERTIES
  EndedOnlyAfterGrace
SYMMETRY Alike
CHECK_DEADLOCK FALSE
