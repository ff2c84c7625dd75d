SPECIFICATION FsmSpec
CONSTANTS
  Objects = {1, 2, 3, 4, 5}
  States = {0, 1, 2}
  Stay = Stay
  Events = {10, 11}
  NestedEvents = {10, 11}
  Transitions <- MCTransitions
  StateTimers <- MCStateTimers
  Value <- MCValue
  Slices = {1, 2}
  MaxSwitches = 2
  MaxDepth = 2
  Nothing = Nothing
INVARIANT HandlerSafe
CHECK_DEADLOCK FALSE
