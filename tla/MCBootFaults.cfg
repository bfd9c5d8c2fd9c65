SPECIFICATION FairSpec
CONSTANTS
  Half = 3
  MaxAttempts = 2
  Torn = Torn
  CrashModulus = 2
  FlashFaults = TRUE
PROPERTIES
  Settles
INVARIANTS
  StoredIsLoaded
