SPECIFICATION TimersSpec
CONSTANTS
  Observers = {o1, o2}
  Delays = {10, 20}
  TickCost = 10
  Width = 2
  NoTimer = NoTimer
  Nobody = Nobody
  UnregisterOthers = TRUE
PROPERTIES CallsRegistered
