SPECIFICATION MediaSpec
CONSTANTS
  Cards = {a, b}
  NoCard = none
  MediaGenerations = 4
  MaxChunks = 3
  MaxRecords = 2
PROPERTIES RemovedIsNotReady
CHECK_DEADLOCK TRUE
