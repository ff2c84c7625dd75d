SPECIFICATION CoreSpec
CONSTANTS
  Subjects = {"queue", "memory pool", "state machine"}
  Producers = {p1, p2}
  Consumers = {c1, c2}
  NoThread = NoThread
  MaxPush = 2
  Observers = {o1, o2, o3}
  Delays = {10, 20}
  TickCost = 10
  Width = 2
  NoTimer = NoTimer
  Nobody = Nobody
  UnregisterOthers = FALSE
  ByteMax = 2
  ChunkSize = 6
  BlockSize = 2
  MaxRegions = 4
  Client = Client
  Objects = {1, 2, 3, 4, 5}
  States = {0, 1, 2}
  Stay = Stay
  Events = {10, 11}
  NestedEvents = {10, 11}
  Transitions <- MCTransitions
  StateTimers <- MCStateTimers
  Value <- MCValue
  Slices = {1, 2}
  MaxSwitches = 2
  MaxDepth = 2
  Nothing = Nothing
INVARIANTS
  FifoConservation FreeListsExact LiveInChunks RegionsOnce
  StatesOwned HandlerAlive TimersOfState TickIntact
PROPERTIES
  ImplementsChannel SuspendedSilent RecursiveChangeKept
\* each component stops at its own bounds; a destroyed machine does nothing, and
\* two receivers can block each other: see the README
CHECK_DEADLOCK FALSE
