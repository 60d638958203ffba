CONSTANTS
  ann = ann
  bob = bob
  a1 = a1
  a2 = a2
  b1 = b1
  cell = cell
  MaxFaults = 2
  Users = {ann, bob}
  Admins = {bob}
  Ops = {a1, b1}
  Items = {cell}
  CellItems = {cell}
  Blank = Blank
  Rejoin = 0
  Joins = {0, 1}
  Attempts = {1}
  ItemOf <- MCItemOf
  AuthorOf <- MCAuthorOf
  MaxWire = 1
  MaxRevision = 5
SPECIFICATION TroubledSpec
INVARIANTS
  Converged
  LiveIsInStep
CHECK_DEADLOCK FALSE
