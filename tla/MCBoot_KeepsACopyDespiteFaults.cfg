SPECIFICATION Spec
CONSTANTS
  Half = 4
  MaxAttempts = 3
  Torn = Torn
  CrashModulus = 3
  FlashFaults = TRUE
PROPERTIES
  KeepsACopyDespiteFaults
