CONSTANTS
  mia = mia
  noa = noa
  Staff = {mia, noa}
  Entries = {login}
  Files = {scan}
  None = None
  MaxKey = 2
  MaxVersion = 3
  feature = feature
  story = story
  taskItem = taskItem
  Items = {feature, story, taskItem}
  Kind <- MCKind
  Sprints = {p}
  Requests = {r1, r2}
  NoRow = NoRow
  MaxBatch = 2
  host = host
  ann = ann
  bea = bea
  hostTab = hostTab
  annTab = annTab
  annPhone = annPhone
  beaTab = beaTab
  Users = {host, ann, bea}
  Sockets = {hostTab, annTab, annPhone, beaTab}
  UserOf <- MCUserOf
  Managers = {host, ann}
  Reports <- MCReports
  MaxStuck = 1
  Host = host
  MaxWire = 2
  Nobody = Nobody
  MaxPresses = 3
SPECIFICATION MCSpec
INVARIANTS
  StrandedOnlyByCrossing
  NothingOverwritten
  OutsidersHoldNoCurrentKey
  NobodyIsLeftBehind
  RemovedStayOut
  OnlineMeansConnected
  HeardByChoice
PROPERTIES
  BatchTakesOnlyTheLiving
  
CHECK_DEADLOCK FALSE
