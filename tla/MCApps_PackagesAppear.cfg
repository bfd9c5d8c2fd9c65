SPECIFICATION Spec
CONSTANTS
  Files <- Present
  Builtins = 9
  Capacity = 16
  MaxFiles = 2
INVARIANTS PackagesAppear
CHECK_DEADLOCK TRUE
