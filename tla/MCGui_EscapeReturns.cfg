SPECIFICATION MCSpec
CONSTANTS
  Capacity = 2
  MaxDepth = 1
  Tours <- AllTours
  Slots = 7
  VisibleApps = 2
INVARIANTS EscapeReturnsOnGlass
