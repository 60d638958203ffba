CONSTANTS
  first = first
  second = second
  Changes = {first, second}
  MaxFailures = 5
  TransportRetries = 2
  Retries = 2
  RateRetries = 2
  ann = ann
  bob = bob
  a1 = a1
  a2 = a2
  b1 = b1
  cell = cell
  MaxFaults = 2
  Users = {ann}
  Admins = {ann}
  Ops = {a1, a2}
  Items = {cell}
  CellItems = {cell}
  Blank = Blank
  Rejoin = 0
  Joins = {0, 1}
  Attempts = {1}
  ItemOf <- MCItemOf
  AuthorOf <- MCAuthorOf
  MaxWire = 1
  MaxRevision = 5
  Tenants = {1, 2}
  Todos = {1, 2, 3, 4}
  TenantOf <- MCTenantOf
  Passes = {pass1, pass2}
  MaxPerTenant = 2
  MaxPerRun = 2
  Window = 1
  Horizon = 2
SPECIFICATION RemindersSpec
INVARIANTS
  OneReminderPerTask
CHECK_DEADLOCK FALSE
