SPECIFICATION MCSpec
CONSTANTS
  Capacity = 2
  MaxDepth = 1
  Tours <- AllTours
  Slots = 7
  VisibleApps = 2
INVARIANTS CursorOnScreen CancelledWhenLeft FocusShown
PROPERTIES ReturnsToHost EscapeLeadsHome DrawnWhole
CHECK_DEADLOCK TRUE
