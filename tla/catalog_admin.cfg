CONSTANTS
  n1 = n1  t1 = t1  t2 = t2  u1 = u1  u2 = u2
  Clients = {c1, c2, c3}  Boot = boot
  Names = {n1}  Urls = {u1, u2}  Tools = {t1, t2}
  Tasks <- MCTasks
  Backend = "postgres"
  Fallible = {"insert", "update"}
  NoList = NoList  Keep = Keep  NoRow = NoRow
  InitialTables <- DisabledServer
  FirstId = 3
  Requests <- AdminRequests
  MaxRetries = 1
  Offers <- MCOffers
  Miss = Miss  Absent = Absent  AnyServer = AnyServer  NoReq = NoReq
SPECIFICATION Spec
SYMMETRY MCSymmetry
INVARIANTS
  PatchKept
  DisabledNotAsked
PROPERTIES
  RowKeptUntilDeleted
