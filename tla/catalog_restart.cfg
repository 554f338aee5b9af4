CONSTANTS
  n1 = n1  t1 = t1  t2 = t2  u1 = u1
  Clients = {c1, c2}  Boot = boot
  Names = {n1}  Urls = {u1}  Tools = {t1, t2}
  Tasks <- MCTasks
  Backend = "sqlite"
  Fallible = {}
  NoList = NoList  Keep = Keep  NoRow = NoRow
  InitialTables <- MCTables
  FirstId = 3
  Requests <- MCRequests
  MaxRetries = 1
  Offers <- MCOffers
  Miss = Miss  Absent = Absent  AnyServer = AnyServer  NoReq = NoReq
  MaxCrashes = 1
SPECIFICATION RestartSpec
INVARIANTS
  PatchKept
  ConfirmedIsDurable
  HealthyIsServed
PROPERTIES
  RegisteredIsProbed
