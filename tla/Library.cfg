SPECIFICATION LibrarySpec
CONSTANTS
  Subjects = {"thread bundle", "smart pointer", "user pool",
              "storage", "singleton", "element", "table", "agent"}
  Threads = {t1, t2}
  MaxRuns = 2
  Holders = {t1, t2, t3}
  Ptrs = {p1, p2, p3, p4}
  Nobody = Nobody
  FirstHolder = t1
  FirstPtr = p1
  Users = {u1, u2, u3}
  Default = Default
  Own = Own
  Unbound = Unbound
  StorageChunk = 4
  ServiceChunk = 8
  Reserved = 2
  EntrySize = 1
  Requests = {1, 3, 6}
  MaxBlocks = 7
  SizeBits = 4
  Clients = {c1, Main}
  Main = Main
  NoClient = NoClient
  Types = {"trace", "timers", "log"}
  Uses <- MCUses
  UsesAtEnd <- MCUsesAtEnd
  MaxTracked = 2
  Longevities = {1, 2}
  Names = {"agent", "log", "trap"}
  Keyed = {"log", "trap"}
  Mandatory <- MCMandatory
  Keys = {k1, k2}
  Unknown = Unknown
  MaxChildren = 3
  MaxStored = 2
  Columns = {1, 2, 3}
  StatusColumn = 1
  Unreadable = {3}
  Indices <- MCIndices
  RemovedBy <- MCRemovedBy
  Finished = Finished
  Written = {1, 3}
  Descriptors = {1, 2}
  MaxConnections = 2
  MaxMessages = 2
INVARIANTS
  NothingLeft AliveWhileHeld NoLeak PoolBound BlocksSound
  MadeOnce UsedOutlivesUser AllDestroyed
  ChildrenSound WalkComplete
  TableMatchesSockets SentToOwner
PROPERTIES
  StoredAgain StatusWithNotifications GreatestFirst AnswersEveryCall StopReturns
\* each component stops at its own bounds, where nothing has to follow
CHECK_DEADLOCK FALSE
