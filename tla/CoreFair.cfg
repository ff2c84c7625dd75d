SPECIFICATION CoreFairSpec
CONSTANTS
  Subjects = {"queue", "timer pool"}
  Producers = {p1, p2}
  Consumers = {c1}
  NoThread = NoThread
  MaxPush = 3
  Observers = {o1, o2, o3}
  Delays = {10, 20}
  TickCost = 10
  Width = 2
  NoTimer = NoTimer
  Nobody = Nobody
  UnregisterOthers = FALSE
  ByteMax = 2
  ChunkSize = 6
  BlockSize = 2
  MaxRegions = 4
  Client = Client
  Objects = {1, 2, 3, 4, 5}
  States = {0, 1, 2}
  Stay = Stay
  Events = {10, 11}
  NestedEvents = {10, 11}
  Transitions <- MCTransitions
  StateTimers <- MCStateTimers
  Value <- MCValue
  Slices = {1, 2}
  MaxSwitches = 2
  MaxDepth = 2
  Nothing = Nothing
INVARIANTS SignalSound NoLostWakeup HandlesValid PeriodKept
PROPERTIES
  EventuallyDelivered CallsRegistered EventuallyCalled DestroyReturns
\* a receiver may wait for ever on a queue nobody pushes to
CHECK_DEADLOCK FALSE
