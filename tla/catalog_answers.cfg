CONSTANTS
  n1 = n1  t1 = t1  t2 = t2  u1 = u1  u2 = u2
  Clients = {c1}  Boot = boot
  Names = {n1}  Urls = {u1}  Tools = {t1, t2}
  Tasks <- MCTasks
  Backend = "sqlite"
  Fallible = {"select", "list", "insert", "update", "delete"}
  NoList = NoList  Keep = Keep  NoRow = NoRow
  InitialTables <- AllServers
  FirstId = 3
  Requests <- AllRequests
  MaxRetries = 3
  Offers <- MCOffers
  Miss = Miss  Absent = Absent  AnyServer = AnyServer  NoReq = NoReq
SPECIFICATION FairSpec
PROPERTIES
  AnswersWithoutUpstream
  EveryTaskEnds
