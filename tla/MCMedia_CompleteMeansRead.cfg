SPECIFICATION MediaSpec
CONSTANTS
  Cards = {a, b}
  NoCard = none
  MediaGenerations = 4
  MaxChunks = 3
  MaxRecords = 2
INVARIANTS CompleteMeansRead
CHECK_DEADLOCK TRUE
