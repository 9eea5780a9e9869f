SPECIFICATION PowerSpec
CONSTANTS
  Books = {p1}
  NoBook = NoBook
  NoRecord = NoRecord
INVARIANT RestoresSaved
CHECK_DEADLOCK FALSE
