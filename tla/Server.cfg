CONSTANTS
  ann = ann
  bob = bob
  a1 = a1
  b1 = b1
  cell = cell
  Users = {ann, bob}
  Items = {cell}
  Blank = Blank
  Attempts = {1}
  Joins = {1, 2}
  Admins = {bob}
  Ops = {a1, b1}
  ItemOf <- MCItemOf
  AuthorOf <- MCAuthorOf
  MaxWire = 1
  MaxRevision = 2
  Callers = {socket, request}
  request = request
  Owners = {o1, o2}
  Nothing = Nothing
  Ttl = 2
  MaxQuery = 1
SPECIFICATION MCSpec
INVARIANTS
  AnnouncedIsNewest
  SavedMeansSaved
  SavedOnceWhileRemembered
  RoomsAreEmptied
PROPERTIES
  NobodyLingers
  OffTakesEffect
  ArchivedIsReadOnly
