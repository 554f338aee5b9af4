CONSTANTS
  u1 = u1  u2 = u2  full = full  narrow = narrow  stranger = stranger
  Callers = {c1}  Admins = {d1, d2}
  Names <- MCNames  Urls = {u1, u2}  Tools <- MCTools
  Tasks <- MCTasks
  Backend = "sqlite"
  Fallible = {"select"}
  NoList = NoList  Keep = Keep  NoRow = NoRow
  InitialTables <- MCTables
  FirstId = 3
  Parts = {"a", "b", "s", "x"}  Blank = Blank  SampleSize = 2
  BlankId = BlankId  BadTokens = {}  NoToken = NoToken
  AllServers = AllServers  Nobody = Nobody
  Calls <- MCCalls  Orders <- MCOrders  Catalogs <- MCCatalogs
  Config <- MCConfig
  Verdicts = {"redact", "error"}
  FailOpen = FALSE
  Miss = Miss  NoCall = NoCall  NoOrder = NoOrder  NoTarget = NoTarget
  NoUrl = NoUrl  NotSent = NotSent
SPECIFICATION FairSpec
INVARIANTS
  TypeOK
  CacheAgrees
  SentWasCallable
PROPERTIES
  GatesHold
  CallsProceed
